---- MODULE Spec2Model ----
(***************************************************************************)
(* Encrypted-credential lifecycle and cluster registry of the ansible      *)
(* platform backend: EncryptionManager (src/utils/encryption.py), the      *)
(* KubernetesClusterService (src/modules/kubernetes/service.py), the       *)
(* registration schema (src/modules/kubernetes/schemas.py) and the cluster *)
(* routes (src/api/routes/kubernetes.py).                                  *)
(*                                                                         *)
(* Python values: a str is [str |-> <<characters>>], None is               *)
(* [none |-> TRUE], a dict is a record with exactly the keys present, and  *)
(* a call that may raise returns [ok |-> TRUE, v |-> value] or             *)
(* [ok |-> FALSE, err |-> message].                                        *)
(***************************************************************************)
EXTENDS Integers, Sequences, FiniteSets, TLC

VARIABLES
    cipher_suite,   \* EncryptionManager.cipher_suite: the key material of the Fernet in use
    secret_key,     \* EncryptionManager.secret_key: the key resolved at construction
    clusters,       \* table kubernetes_clusters: cluster id -> row
    issued,         \* history: what encrypt_data was given and what it returned
    environ,        \* what key resolution reads: ENCRYPTION_KEY, the secret file, the key files
    rotation,       \* the rotate_key call in progress, None when there is none
    cluster_nodes,  \* table cluster_nodes: node id -> row
    playbooks,      \* table playbooks: playbook id -> row
    inventory,      \* table inventory: inventory id -> row
    job_executions, \* table job_executions: execution id -> row
    background_tasks, \* the tasks execute_playbook added: execution id -> arguments and state
    last            \* the last call: operation, arguments, outcome

vars == <<cipher_suite, secret_key, clusters, issued, environ, rotation, cluster_nodes, playbooks, inventory, job_executions, background_tasks, last>>

----------------------------------------------------------------------------
(* Python values *)

None == [none |-> TRUE]
Str(cs) == [str |-> cs]
EmptyStr == Str(<<>>)

\* Python truthiness of an Optional[str]: `not x`
Falsy(x) == x = None \/ x = EmptyStr

IsStr(x) == "str" \in DOMAIN x
IsNone(x) == "none" \in DOMAIN x

\* A dict with no key, and dict.get
EmptyDict == <<>>
Get(d, k, default) == IF k \in DOMAIN d THEN d[k] ELSE default

Ok(v) == [ok |-> TRUE, v |-> v]
Err(e) == [ok |-> FALSE, err |-> e]

\* A lone surrogate code point: a Python str may hold it, UTF-8 cannot encode it.
LoneSurrogate == "<U+D800>"

Whitespace == {" ", "\n", "\t"}

----------------------------------------------------------------------------
(* Library conversions used by EncryptionManager *)

\* str.encode(): UnicodeEncodeError on a lone surrogate, else the UTF-8 bytes
Utf8Encode(s) ==
    IF \E i \in 1..Len(s.str) : s.str[i] = LoneSurrogate
    THEN Err("UnicodeEncodeError")
    ELSE Ok([utf8 |-> s.str])

\* bytes.decode() of bytes that are valid UTF-8
Utf8Decode(b) ==
    IF "utf8" \in DOMAIN b THEN Ok(Str(b.utf8)) ELSE Err("UnicodeDecodeError")

\* Fernet(key).encrypt(msg): a token authenticated under the key, with a fresh IV
FernetEncrypt(key, iv, msg) == [key |-> key, iv |-> iv, msg |-> msg]

\* Fernet(key).decrypt(token): InvalidToken unless the token was made under this key
FernetDecrypt(key, token) ==
    IF "key" \in DOMAIN token /\ token.key = key
    THEN Ok(token.msg)
    ELSE Err("InvalidToken")

\* base64.urlsafe_b64encode(token).decode()
B64Encode(token) == [b64 |-> token]

\* base64.urlsafe_b64decode(text.encode()): the bytes, which are a Fernet token only
\* if the text is the encoding of one
B64Decode(x) ==
    IF "b64" \in DOMAIN x THEN Ok(x.b64)
    ELSE IF IsStr(x) /\ \E i \in 1..Len(x.str) : x.str[i] = LoneSurrogate
         THEN Err("UnicodeEncodeError")
         ELSE Ok([raw |-> x])

----------------------------------------------------------------------------
(* EncryptionManager *)

KeyChars == 44
KeyBytes == 32

\* The two key materials of the model and the IVs a Fernet token may carry
KeyMaterial == {"kA", "kB"}
IVs == {1, 2}

\* Key strings as rotate_key receives them: `pad` surrounding whitespace or quote
\* characters, `chars` characters between them, `decoded` the number of bytes
\* urlsafe_b64decode gives (-1: binascii.Error), `material` the bytes themselves.
KeyStr(pad, chars, decoded, material) ==
    [pad |-> pad, chars |-> chars, decoded |-> decoded, material |-> material]

KeyStrA == KeyStr(0, KeyChars, KeyBytes, "kA")
KeyStrB == KeyStr(0, KeyChars, KeyBytes, "kB")
KeyStrBQuoted == KeyStr(2, KeyChars, KeyBytes, "kB")
KeyStrShort == KeyStr(0, KeyChars - 1, -1, "short")
KeyStrLong == KeyStr(0, KeyChars, KeyBytes + 1, "long")
KeyStrNotB64 == KeyStr(0, KeyChars, -1, "notb64")
KeyStrEmpty == KeyStr(0, 0, 0, "")
KeyStrBlank == KeyStr(3, 0, 0, "")

KeyStrings ==
    {KeyStrA, KeyStrB, KeyStrBQuoted, KeyStrShort, KeyStrLong, KeyStrNotB64,
     KeyStrEmpty, KeyStrBlank}

\* _validate_and_decode_key
ValidateAndDecodeKey(key_str) ==
    IF key_str.pad + key_str.chars = 0
    THEN Err("Empty encryption key provided")
    ELSE IF key_str.chars # KeyChars
    THEN Err("Invalid encryption key format")
    ELSE IF key_str.decoded < 0
    THEN Err("Invalid encryption key format")
    ELSE IF key_str.decoded # KeyBytes
    THEN Err("Invalid encryption key format")
    ELSE Ok(key_str.material)

\* encrypt_data with the cipher `key`; `iv` is the IV Fernet draws
\* (faulty variant: the Fernet token is returned without the second base64 encoding)
EncryptDataSingleEncoded(key, iv, data) ==
    IF Falsy(data) THEN Ok(EmptyStr)
    ELSE LET bytes == Utf8Encode(data) IN
         IF ~bytes.ok THEN Err("Encryption failed")
         ELSE Ok(FernetEncrypt(key, iv, bytes.v))

EncryptData(key, iv, data) ==
    IF Falsy(data) THEN Ok(EmptyStr)
    ELSE LET bytes == Utf8Encode(data) IN
         IF ~bytes.ok THEN Err("Encryption failed")
         ELSE Ok(B64Encode(FernetEncrypt(key, iv, bytes.v)))

\* decrypt_data with the cipher `key`
\* (faulty variant: the token's authentication under the key is not checked)
DecryptDataAnyKey(key, encrypted_data) ==
    IF Falsy(encrypted_data) THEN Ok(EmptyStr)
    ELSE LET bytes == B64Decode(encrypted_data) IN
         IF ~bytes.ok \/ "msg" \notin DOMAIN bytes.v THEN Err("Decryption failed")
         ELSE Utf8Decode(bytes.v.msg)

DecryptData(key, encrypted_data) ==
    IF Falsy(encrypted_data) THEN Ok(EmptyStr)
    ELSE LET bytes == B64Decode(encrypted_data) IN
         IF ~bytes.ok THEN Err("Decryption failed")
         ELSE LET plain == FernetDecrypt(key, bytes.v) IN
              IF ~plain.ok THEN Err("Decryption failed")
              ELSE LET text == Utf8Decode(plain.v) IN
                   IF ~text.ok THEN Err("Decryption failed") ELSE text

TestRotation ==
    Str(<<"t", "e", "s", "t", "_", "r", "o", "t", "a", "t", "i", "o", "n">>)

\* rotate_key: [ret |-> the bool returned, cipher |-> cipher_suite afterwards]
\* (faulty variant: the candidate becomes the cipher before it is validated)
RotateKeyNoValidation(cipher, new_key, iv) ==
    LET validated == ValidateAndDecodeKey(new_key) IN
    IF ~validated.ok THEN [ret |-> FALSE, cipher |-> new_key.material]
    ELSE [ret |-> TRUE, cipher |-> validated.v]

RotateKey(cipher, new_key, iv) ==
    LET validated == ValidateAndDecodeKey(new_key) IN
    IF ~validated.ok THEN [ret |-> FALSE, cipher |-> cipher]
    ELSE LET encrypted == EncryptData(validated.v, iv, TestRotation) IN
         IF ~encrypted.ok THEN [ret |-> FALSE, cipher |-> validated.v]
         ELSE LET decrypted == DecryptData(validated.v, encrypted.v) IN
              IF ~decrypted.ok THEN [ret |-> FALSE, cipher |-> validated.v]
              ELSE IF decrypted.v = TestRotation
                   THEN [ret |-> TRUE, cipher |-> validated.v]
                   ELSE [ret |-> FALSE, cipher |-> cipher]

\* rotate_key after `self.cipher_suite = Fernet(validated_key)`: the self-test
\* runs under the cipher in place, and only a mismatch puts the old one back
SelfTest(cipher, old_cipher_suite, iv) ==
    LET encrypted == EncryptData(cipher, iv, TestRotation) IN
    IF ~encrypted.ok THEN [ret |-> FALSE, cipher |-> cipher]
    ELSE LET decrypted == DecryptData(cipher, encrypted.v) IN
         IF ~decrypted.ok THEN [ret |-> FALSE, cipher |-> cipher]
         ELSE IF decrypted.v = TestRotation
              THEN [ret |-> TRUE, cipher |-> cipher]
              ELSE [ret |-> FALSE, cipher |-> old_cipher_suite]

\* Fernet(key): the key must decode to 32 bytes; the decoder skips characters
\* outside the base64 alphabet, so surrounding whitespace does not matter
Fernet(key) ==
    IF key.decoded = KeyBytes THEN Ok(key.material) ELSE Err("ValueError")

\* key_str.encode() of a validated key string: the 44 characters alone
KeyStrOf(material) == KeyStr(0, KeyChars, KeyBytes, material)

\* hashlib.sha256(key).hexdigest()[:16]
Sha256Hex16(key) == [sha256_16 |-> key]

\* get_key_fingerprint: it hashes the key resolved at construction
GetKeyFingerprint(resolved) == [key_ |-> Sha256Hex16(resolved)]

----------------------------------------------------------------------------
(* Key resolution at construction: _get_production_secret_key.  A file is   *)
(* Absent, Unreadable (it exists, reading it raises) or its content.        *)

Absent == [absent |-> TRUE]
Unreadable == [unreadable |-> TRUE]

\* os.path.exists(path)
Exists(file) == file # Absent

\* open(path).read() returns instead of raising
Readable(file) == "material" \in DOMAIN file

AppDataKeyFile == "/app/data/encryption_key.key"
AppKeyFile == "/app/encryption_key.key"
CwdKeyFile == "encryption_key.key"

KeyLocations == <<AppDataKeyFile, AppKeyFile, CwdKeyFile>>
PersistenceLocations == <<AppDataKeyFile, CwdKeyFile>>

\* os.path.dirname
Dirname(path) ==
    IF path = AppDataKeyFile THEN "/app/data"
    ELSE IF path = AppKeyFile THEN "/app"
    ELSE ""

NoKeyFiles == [path \in {AppDataKeyFile, AppKeyFile, CwdKeyFile} |-> Absent]

Environment(env_key, secret_file, key_files) ==
    [env_key |-> env_key, secret_file |-> secret_file, key_files |-> key_files]

\* `not env_key` of os.getenv('ENCRYPTION_KEY'): unset or set to the empty string
FalsyKey(key_str) == key_str = None \/ key_str.pad + key_str.chars = 0

\* f.read().strip() of the secret file: surrounding whitespace is dropped
StripKey(content) == IF content.chars = 0 THEN [content EXCEPT !.pad = 0] ELSE content

\* What _get_production_secret_key does: return a key or raise; the key files after it
Resolved(key, source, key_files, key_saved) ==
    [raised |-> FALSE, key |-> key, source |-> source, key_files |-> key_files,
     key_saved |-> key_saved]

Raised(source, key_files) ==
    [raised |-> TRUE, key |-> None, source |-> source, key_files |-> key_files,
     key_saved |-> FALSE]

\* One turn of the persistence loop: makedirs, open 'wb', write, chmod.  `outcome`
\* says how far the file system lets it get.
\* (faulty variant: the key is reported saved and the file is not written)
WriteKeyFileUnwritten(key_files, path, new_key, outcome) ==
    IF Dirname(path) = "" THEN [key_files |-> key_files, key_saved |-> FALSE]
    ELSE IF outcome = "saved" THEN [key_files |-> key_files, key_saved |-> TRUE]
    ELSE IF outcome = "chmod_failed"
    THEN [key_files |-> [key_files EXCEPT ![path] = new_key], key_saved |-> FALSE]
    ELSE IF outcome = "truncated"
    THEN [key_files |-> [key_files EXCEPT ![path] = KeyStrEmpty], key_saved |-> FALSE]
    ELSE [key_files |-> key_files, key_saved |-> FALSE]

WriteKeyFile(key_files, path, new_key, outcome) ==
    IF Dirname(path) = "" THEN [key_files |-> key_files, key_saved |-> FALSE]
    ELSE IF outcome = "saved"
    THEN [key_files |-> [key_files EXCEPT ![path] = new_key], key_saved |-> TRUE]
    ELSE IF outcome = "chmod_failed"
    THEN [key_files |-> [key_files EXCEPT ![path] = new_key], key_saved |-> FALSE]
    ELSE IF outcome = "truncated"
    THEN [key_files |-> [key_files EXCEPT ![path] = KeyStrEmpty], key_saved |-> FALSE]
    ELSE [key_files |-> key_files, key_saved |-> FALSE]

WriteOutcomes == {"saved", "chmod_failed", "truncated", "denied"}

\* How the write of each persistence location would end, were it attempted:
\* the primary location in any way, the fallback saved or denied
LocationOutcomes ==
    {[path \in {AppDataKeyFile, CwdKeyFile} |->
        IF path = AppDataKeyFile THEN primary ELSE fallback] :
            primary \in WriteOutcomes, fallback \in {"saved", "denied"}}

\* The locations whose directory and file the process may write
Writable(outcome) == {path \in DOMAIN outcome : outcome[path] = "saved"}

\* The persistence loop from location i on: the first location written ends it
RECURSIVE Persist(_, _, _, _)
Persist(key_files, i, new_key, outcome) ==
    IF i > Len(PersistenceLocations) THEN [key_files |-> key_files, key_saved |-> FALSE]
    ELSE LET written == WriteKeyFile(key_files, PersistenceLocations[i], new_key,
                                     outcome[PersistenceLocations[i]]) IN
         IF written.key_saved THEN written
         ELSE Persist(written.key_files, i + 1, new_key, outcome)

\* Method 4: generate a key and try to persist it
Persisted(new_key, written) == Resolved(new_key, "generated", written.key_files, written.key_saved)

GenerateKey(key_files, new_key, outcome) ==
    Persisted(new_key, Persist(key_files, 1, new_key, outcome))

\* Method 3, the loop over key_locations from location i on: the content of the
\* first file that exists and can be read, as it is; None when there is none
RECURSIVE ReadKeyFiles(_, _)
ReadKeyFiles(key_files, i) ==
    IF i > Len(KeyLocations) THEN None
    ELSE IF Exists(key_files[KeyLocations[i]]) /\ Readable(key_files[KeyLocations[i]])
    THEN key_files[KeyLocations[i]]
    ELSE ReadKeyFiles(key_files, i + 1)

FromKeyFiles(env, new_key, outcome) ==
    IF ReadKeyFiles(env.key_files, 1) # None
    THEN Resolved(ReadKeyFiles(env.key_files, 1), "file", env.key_files, FALSE)
    ELSE GenerateKey(env.key_files, new_key, outcome)

\* Method 2: the secret file; a failure to read or validate it is logged
\* (faulty variant: the local key files are consulted before the secret file)
FromSecretFileAfterKeyFiles(env, new_key, outcome) ==
    IF ReadKeyFiles(env.key_files, 1) # None
    THEN Resolved(ReadKeyFiles(env.key_files, 1), "file", env.key_files, FALSE)
    ELSE IF /\ Exists(env.secret_file)
            /\ Readable(env.secret_file)
            /\ ValidateAndDecodeKey(StripKey(env.secret_file)).ok
    THEN Resolved(KeyStrOf(ValidateAndDecodeKey(StripKey(env.secret_file)).v), "secret",
                  env.key_files, FALSE)
    ELSE GenerateKey(env.key_files, new_key, outcome)

FromSecretFile(env, new_key, outcome) ==
    IF /\ Exists(env.secret_file)
       /\ Readable(env.secret_file)
       /\ ValidateAndDecodeKey(StripKey(env.secret_file)).ok
    THEN Resolved(KeyStrOf(ValidateAndDecodeKey(StripKey(env.secret_file)).v), "secret",
                  env.key_files, FALSE)
    ELSE FromKeyFiles(env, new_key, outcome)

\* Method 1 first: ENCRYPTION_KEY, when it is set to a non-empty value
GetProductionSecretKey(env, new_key, outcome) ==
    IF ~FalsyKey(env.env_key)
    THEN IF ValidateAndDecodeKey(env.env_key).ok
         THEN Resolved(KeyStrOf(ValidateAndDecodeKey(env.env_key).v), "env", env.key_files, FALSE)
         ELSE Raised("env", env.key_files)
    ELSE FromSecretFile(env, new_key, outcome)

----------------------------------------------------------------------------
(* Texts a registration may carry.  A token and a URL are written character *)
(* by character; a kubeconfig is written line by line and is read only by   *)
(* yaml.safe_load.                                                          *)

\* str.strip()
RECURSIVE LStrip(_)
LStrip(cs) == IF cs # <<>> /\ Head(cs) \in Whitespace THEN LStrip(Tail(cs)) ELSE cs
RECURSIVE RStrip(_)
RStrip(cs) ==
    IF cs # <<>> /\ cs[Len(cs)] \in Whitespace THEN RStrip(SubSeq(cs, 1, Len(cs) - 1)) ELSE cs
Strip(s) == Str(RStrip(LStrip(s.str)))

\* str.startswith(prefix)
StartsWith(s, prefix) ==
    Len(s.str) >= Len(prefix) /\ SubSeq(s.str, 1, Len(prefix)) = prefix

\* `word in text` for two strs
Contains(cs, word) ==
    \E i \in 1..Len(cs) : i + Len(word) - 1 <= Len(cs) /\ SubSeq(cs, i, i + Len(word) - 1) = word

Token9 == Str(<<"a", "b", "c", "d", "e", "f", "g", "h", "i">>)
Token10 == Str(<<"a", "b", "c", "d", "e", "f", "g", "h", "i", "j">>)
Token10Padded == Str(<<" ", "a", "b", "c", "d", "e", "f", "g", "h", "i", "j", "\n">>)
Token9Padded == Str(<<" ", "a", "b", "c", "d", "e", "f", "g", "h", "i", "\n">>)
TokenSurrogate == Str(<<"a", "b", "c", "d", "e", "f", "g", "h", "i", "j", LoneSurrogate>>)
Blank == Str(<<" ", "\n">>)

ApiHttps == Str(<<"h", "t", "t", "p", "s", ":", "/", "/", "k">>)
ApiHttp == Str(<<"h", "t", "t", "p", ":", "/", "/", "k">>)
ApiNoScheme == Str(<<"k", ":", "6", "4", "4", "3">>)

KcServer == Str(<<"h", "t", "t", "p", "s", ":", "/", "/", "c">>)
KcValid == Str(<<"apiVersion: v1", "clusters:", "- cluster: {server: https://c}", "users: []">>)
KcNoApiVersion == Str(<<"clusters:", "- cluster: {server: https://c}">>)
KcNoClusters == Str(<<"apiVersion: v1", "users: []">>)
KcEmptyClusters == Str(<<"apiVersion: v1", "clusters: []">>)
KcNoServer == Str(<<"apiVersion: v1", "clusters:", "- cluster: {}">>)
KcNoClusterKey == Str(<<"apiVersion: v1", "clusters:", "- name: c">>)
KcNullCluster == Str(<<"apiVersion: v1", "clusters:", "- cluster:">>)
KcNotYaml == Str(<<"apiVersion: [">>)
KcUsersNoApiVersion == Str(<<"clusters:", "- cluster: {server: https://c}", "users: []">>)

\* yaml.safe_load: a mapping is a record with the document's keys, a plain scalar
\* is [scalar |-> its characters]; a lone surrogate is a ReaderError (a YAMLError)
YamlLoad(text) ==
    CASE text = KcValid ->
            Ok([apiVersion |-> "v1", users |-> <<>>,
                clusters |-> <<[cluster |-> [server |-> KcServer]]>>])
      [] text = KcNoApiVersion ->
            Ok([clusters |-> <<[cluster |-> [server |-> KcServer]]>>])
      [] text = KcNoClusters -> Ok([apiVersion |-> "v1", users |-> <<>>])
      [] text = KcEmptyClusters -> Ok([apiVersion |-> "v1", clusters |-> <<>>])
      [] text = KcNoServer ->
            Ok([apiVersion |-> "v1", clusters |-> <<[cluster |-> EmptyDict]>>])
      [] text = KcNoClusterKey -> Ok([apiVersion |-> "v1", clusters |-> <<[name |-> "c"]>>])
      [] text = KcNullCluster -> Ok([apiVersion |-> "v1", clusters |-> <<[cluster |-> None]>>])
      [] text = KcNotYaml -> Err("YAMLError")
      [] text = KcUsersNoApiVersion ->
            Ok([users |-> <<>>, clusters |-> <<[cluster |-> [server |-> KcServer]]>>])
      [] OTHER ->
            IF \E i \in 1..Len(text.str) : text.str[i] = LoneSurrogate
            THEN Err("YAMLError")
            ELSE IF Strip(text) = EmptyStr THEN Ok(None)
            ELSE Ok([scalar |-> Strip(text).str])

----------------------------------------------------------------------------
(* ExistingClusterRegister.validate_all_fields: the request values are      *)
(* [name, auth_data, auth_type, api_server]; auth_type "" is a missing one. *)

MinTokenLen == 10

Http == <<"h", "t", "t", "p", ":", "/", "/">>
Https == <<"h", "t", "t", "p", "s", ":", "/", "/">>
WordApiVersion == <<"a", "p", "i", "V", "e", "r", "s", "i", "o", "n">>
WordClusters == <<"c", "l", "u", "s", "t", "e", "r", "s">>
WordUsers == <<"u", "s", "e", "r", "s">>

\* `key in config` for what yaml.safe_load returned: a key of a mapping, a
\* substring of a scalar
In(word, key, config) ==
    IF "scalar" \in DOMAIN config THEN Contains(config.scalar, word)
    ELSE key \in DOMAIN config

\* The kubeconfig branch; every exception in it is re-raised as a ValueError
ValidateKubeconfigData(auth_data) ==
    LET loaded == YamlLoad(auth_data) IN
    IF ~loaded.ok THEN Err("Invalid kubeconfig YAML format")
    ELSE LET config == loaded.v IN
         IF IsNone(config) \/ DOMAIN config = {}
            \/ ~In(WordApiVersion, "apiVersion", config)
            \/ ~In(WordClusters, "clusters", config)
         THEN Err("Invalid kubeconfig format: missing apiVersion or clusters")
         ELSE IF "scalar" \in DOMAIN config
         THEN Err("Invalid kubeconfig: AttributeError")
         ELSE LET listed == Get(config, "clusters", <<>>) IN
              IF listed = <<>> THEN Err("Invalid kubeconfig: no clusters defined")
              ELSE LET cluster == Get(listed[1], "cluster", EmptyDict) IN
                   IF IsNone(cluster) THEN Err("Invalid kubeconfig: AttributeError")
                   ELSE IF Falsy(Get(cluster, "server", None))
                   THEN Err("Invalid kubeconfig: cluster server URL missing")
                   ELSE Ok(TRUE)

\* The token branch
\* (faulty variant: the API server is not required)
ValidateTokenDataNoServer(auth_data, api_server) ==
    IF Len(Strip(auth_data).str) < MinTokenLen
    THEN Err("Token appears to be invalid (too short)")
    ELSE Ok(TRUE)

\* (faulty variant: a token of exactly MinTokenLen characters is refused)
ValidateTokenDataOverMin(auth_data, api_server) ==
    IF Len(Strip(auth_data).str) <= MinTokenLen
    THEN Err("Token appears to be invalid (too short)")
    ELSE IF Falsy(api_server)
    THEN Err("API server URL is required for token authentication")
    ELSE IF ~(StartsWith(api_server, Http) \/ StartsWith(api_server, Https))
    THEN Err("API server URL must start with http:// or https://")
    ELSE Ok(TRUE)

ValidateTokenData(auth_data, api_server) ==
    IF Len(Strip(auth_data).str) < MinTokenLen
    THEN Err("Token appears to be invalid (too short)")
    ELSE IF Falsy(api_server)
    THEN Err("API server URL is required for token authentication")
    ELSE IF ~(StartsWith(api_server, Http) \/ StartsWith(api_server, Https))
    THEN Err("API server URL must start with http:// or https://")
    ELSE Ok(TRUE)

ValidateAllFields(values) ==
    IF values.auth_type = "" THEN Err("Auth type is required")
    ELSE IF values.auth_type \notin {"kubeconfig", "token"}
    THEN Err("Auth type must be kubeconfig or token")
    ELSE IF Falsy(values.auth_data) \/ Strip(values.auth_data) = EmptyStr
    THEN Err("Authentication data cannot be empty")
    ELSE IF values.auth_type = "kubeconfig"
    THEN ValidateKubeconfigData(values.auth_data)
    ELSE ValidateTokenData(values.auth_data, values.api_server)

----------------------------------------------------------------------------
(* The external list-nodes command, as the service sees it end             *)

ConnectMarker == "Unable to connect to the server"

\* One node of the JSON: the suffixes of its node-role.kubernetes.io/ labels,
\* whether it carries kubernetes.io/role=master, and its Ready condition
Node(role_labels, legacy_master, ready) ==
    [role_labels |-> role_labels, legacy_master |-> legacy_master, ready |-> ready]

ControlPlaneNode == Node({"control-plane"}, FALSE, "True")
WorkerNode == Node({}, FALSE, "True")
LegacyMasterNode == Node({}, TRUE, "False")
MasterNode == Node({"master"}, FALSE, "Unknown")
LabelledWorkerNode == Node({"worker"}, TRUE, "False")

\* _parse_nodes_json: name, version and addresses are left out
\* (faulty variant: the legacy label counts even beside node-role labels)
ParseNodesJsonLegacyAlways(items) ==
    [i \in 1..Len(items) |->
        [roles |-> IF items[i].legacy_master
                   THEN items[i].role_labels \cup {"master"}
                   ELSE items[i].role_labels,
         status |-> items[i].ready]]

ParseNodesJson(items) ==
    [i \in 1..Len(items) |->
        [roles |-> IF items[i].role_labels = {} /\ items[i].legacy_master
                   THEN {"master"}
                   ELSE items[i].role_labels,
         status |-> items[i].ready]]

\* _is_master_node
IsMasterNode(node_info) ==
    "control-plane" \in node_info.roles \/ "master" \in node_info.roles

\* What subprocess.run and the lines after it return or raise: `run` is how
\* the command ended
\* (faulty variant: the authentication markers are looked for first)
ListNodesAuthFirst(run) ==
    CASE run.kind = "timeout" -> Err("TimeoutExpired")
      [] run.kind = "exit" ->
            IF "Forbidden" \in run.stderr \/ "Unauthorized" \in run.stderr
            THEN Err("Authentication failed")
            ELSE IF ConnectMarker \in run.stderr
            THEN Err("Unable to connect to Kubernetes API")
            ELSE Err("kubectl error")
      [] run.kind = "badjson" -> Err("JSONDecodeError")
      [] run.kind = "nodes" -> Ok(ParseNodesJson(run.items))

ListNodes(run) ==
    CASE run.kind = "timeout" -> Err("TimeoutExpired")
      [] run.kind = "exit" ->
            IF ConnectMarker \in run.stderr
            THEN Err("Unable to connect to Kubernetes API")
            ELSE IF "Forbidden" \in run.stderr \/ "Unauthorized" \in run.stderr
            THEN Err("Authentication failed")
            ELSE Err("kubectl error")
      [] run.kind = "badjson" -> Err("JSONDecodeError")
      [] run.kind = "nodes" -> Ok(ParseNodesJson(run.items))

\* An outcome with the number of times the command was started and the
\* number of temporary files left behind
Ran(res, starts, left) == res @@ [starts |-> starts, left |-> left]

\* (faulty variant: a command that timed out is started a second time)
GetNodesWithKubeconfigRetrying(kubeconfig, run) ==
    IF run.kind = "nowrite" THEN Ran(Err("OSError"), 0, 1)
    ELSE IF run.kind = "timeout" THEN Ran(ListNodes(run), 2, 0)
    ELSE Ran(ListNodes(run), 1, 0)

\* _get_nodes_with_kubeconfig: the kubeconfig is written to a temporary file
\* made with delete=False (run.kind "nowrite": the write raises), then the
\* command runs once inside try/finally, which unlinks the file
GetNodesWithKubeconfig(kubeconfig, run) ==
    IF run.kind = "nowrite" THEN Ran(Err("OSError"), 0, 1)
    ELSE Ran(ListNodes(run), 1, 0)

\* _create_kubeconfig_with_token
CreateKubeconfigWithToken(token, api_server) ==
    [server |-> api_server, token |-> token,
     insecure_skip_tls_verify |-> StartsWith(api_server, Https)]

\* _get_kubectl_nodes
GetKubectlNodes(auth_data, auth_type, api_server, run) ==
    IF auth_type = "kubeconfig" THEN GetNodesWithKubeconfig(auth_data, run)
    ELSE IF auth_type = "token"
    THEN IF Falsy(api_server)
         THEN Ran(Err("API server URL is required for token authentication"), 0, 0)
         ELSE GetNodesWithKubeconfig(CreateKubeconfigWithToken(auth_data, api_server), run)
    ELSE Ran(Err("Unsupported authentication type"), 0, 0)

----------------------------------------------------------------------------
(* KubernetesClusterService over the table `rows`: cluster id -> row.  A    *)
(* row holds the columns of KubernetesCluster the service reads or writes;  *)
(* description, inventory_id, playbook_id and the timestamps are left out.  *)

MaxClusters == 1

\* A short literal str, such as an auth type, as a returned value
Lit(t) == [lit |-> t]

\* uuid.uuid4 for a new row: an id no row has
NewId(rows) == CHOOSE id \in 1..(Cardinality(DOMAIN rows) + 1) : id \notin DOMAIN rows

\* get_cluster_by_id
GetClusterById(rows, cluster_id) ==
    IF cluster_id \in DOMAIN rows THEN rows[cluster_id] ELSE None

\* get_cluster_by_name: whether the query has a first row
GetClusterByName(rows, name, user_id) ==
    \E id \in DOMAIN rows : rows[id].name = name /\ rows[id].user_id = user_id

\* `not cluster or cluster.user_id != user_id`
\* (faulty variant: the owner of the row is not looked at)
NotFoundOnly(rows, cluster_id, user_id) ==
    IsNone(GetClusterById(rows, cluster_id))

NotFoundOrForeign(rows, cluster_id, user_id) ==
    LET cluster == GetClusterById(rows, cluster_id) IN
    IsNone(cluster) \/ cluster.user_id # user_id

\* get_cluster_auth_data: the pair returned, and whether decrypt_data ran
\* (faulty variant: a decryption error is not caught)
GetClusterAuthDataUncaught(rows, key, cluster_id, user_id) ==
    IF NotFoundOrForeign(rows, cluster_id, user_id)
    THEN [ret |-> <<None, None>>, raised |-> FALSE, decrypted |-> FALSE]
    ELSE LET cluster == rows[cluster_id] IN
         IF Falsy(cluster.kubeconfig)
         THEN [ret |-> <<None, None>>, raised |-> FALSE, decrypted |-> FALSE]
         ELSE LET plain == DecryptData(key, cluster.kubeconfig) IN
              IF plain.ok
              THEN [ret |-> <<plain.v, Lit(cluster.auth_type)>>, raised |-> FALSE,
                    decrypted |-> TRUE]
              ELSE [ret |-> <<None, None>>, raised |-> TRUE, decrypted |-> TRUE]

GetClusterAuthData(rows, key, cluster_id, user_id) ==
    IF NotFoundOrForeign(rows, cluster_id, user_id)
    THEN [ret |-> <<None, None>>, raised |-> FALSE, decrypted |-> FALSE]
    ELSE LET cluster == rows[cluster_id] IN
         IF Falsy(cluster.kubeconfig)
         THEN [ret |-> <<None, None>>, raised |-> FALSE, decrypted |-> FALSE]
         ELSE LET plain == DecryptData(key, cluster.kubeconfig) IN
              IF plain.ok
              THEN [ret |-> <<plain.v, Lit(cluster.auth_type)>>, raised |-> FALSE,
                    decrypted |-> TRUE]
              ELSE [ret |-> <<None, None>>, raised |-> FALSE, decrypted |-> TRUE]

MasterCount(nodes_info) ==
    Cardinality({i \in 1..Len(nodes_info) : IsMasterNode(nodes_info[i])})

\* The dict of the except branch of get_cluster_node_summary
SummaryFailure(cluster, auth_type, e) ==
    [total_nodes |-> cluster.master_nodes + cluster.worker_nodes,
     master_nodes |-> cluster.master_nodes,
     worker_nodes |-> cluster.worker_nodes,
     nodes |-> <<>>,
     auth_type |-> auth_type,
     status |-> "error",
     error |-> "Failed to connect to cluster: " \o e]

\* get_cluster_node_summary: the dict returned, the table afterwards, and
\* whether the list-nodes command was started
\* (faulty variant: a failed query resets the stored counts and marks the row)
GetClusterNodeSummaryResetting(rows, key, cluster_id, user_id, run) ==
    IF NotFoundOrForeign(rows, cluster_id, user_id)
    THEN [ret |-> [error |-> "Cluster not found or access denied"],
          rows |-> rows, queried |-> FALSE, starts |-> 0, left |-> 0, decrypted |-> FALSE]
    ELSE [ret |-> [error |-> "Failed to connect to cluster", status |-> "error"],
          rows |-> [rows EXCEPT ![cluster_id].master_nodes = 0,
                                ![cluster_id].worker_nodes = 0,
                                ![cluster_id].status = "error"],
          queried |-> TRUE, starts |-> 1, left |-> 0, decrypted |-> TRUE]

\* The success branch: the counts detected are stored and returned
SummarySuccess(rows, cluster_id, auth_type, nodes, master_count, starts, left) ==
    [ret |-> [total_nodes |-> Len(nodes),
              master_nodes |-> master_count,
              worker_nodes |-> Len(nodes) - master_count,
              nodes |-> nodes,
              auth_type |-> auth_type,
              status |-> "success"],
     rows |-> [rows EXCEPT ![cluster_id].master_nodes = master_count,
                           ![cluster_id].worker_nodes = Len(nodes) - master_count,
                           ![cluster_id].status = "registered"],
     queried |-> starts > 0, starts |-> starts, left |-> left]

\* The try block once _get_kubectl_nodes has returned or raised `nodes_info`
SummaryOfNodes(rows, cluster_id, auth_type, nodes_info) ==
    IF ~nodes_info.ok
    THEN [ret |-> SummaryFailure(rows[cluster_id], auth_type, nodes_info.err),
          rows |-> rows, queried |-> nodes_info.starts > 0,
          starts |-> nodes_info.starts, left |-> nodes_info.left]
    ELSE SummarySuccess(rows, cluster_id, auth_type, nodes_info.v, MasterCount(nodes_info.v),
                        nodes_info.starts, nodes_info.left)

\* The body once get_cluster_auth_data has returned the pair `auth`
SummaryWithAuth(rows, cluster_id, run, auth) ==
    IF Falsy(auth[1])
    THEN [ret |-> [error |-> "Cluster authentication data unavailable",
                   needs_re_registration |-> TRUE],
          rows |-> rows, queried |-> FALSE, starts |-> 0, left |-> 0]
    ELSE IF auth[2] = Lit("token") /\ Falsy(rows[cluster_id].api_server)
    THEN [ret |-> [error |-> "API server URL is required for token authentication but not found in cluster record"],
          rows |-> rows, queried |-> FALSE, starts |-> 0, left |-> 0]
    ELSE SummaryOfNodes(rows, cluster_id, auth[2],
                        GetKubectlNodes(auth[1], auth[2].lit, rows[cluster_id].api_server, run))

\* The result with whether decrypt_data ran for it
Decrypted(res, decrypted) == res @@ [decrypted |-> decrypted]

GetClusterNodeSummary(rows, key, cluster_id, user_id, run) ==
    IF NotFoundOrForeign(rows, cluster_id, user_id)
    THEN [ret |-> [error |-> "Cluster not found or access denied"],
          rows |-> rows, queried |-> FALSE, starts |-> 0, left |-> 0, decrypted |-> FALSE]
    ELSE Decrypted(SummaryWithAuth(rows, cluster_id, run,
                                   GetClusterAuthData(rows, key, cluster_id, user_id).ret),
                   GetClusterAuthData(rows, key, cluster_id, user_id).decrypted)

\* get_cluster_health: the health of the summary just fetched
\* (faulty variant: exactly half of the nodes Ready is not enough for "warning")
HealthStatusOverHalf(node_summary_data) ==
    LET ready_nodes == Cardinality({i \in 1..Len(node_summary_data.nodes) :
                                        node_summary_data.nodes[i].status = "True"})
        total_nodes == node_summary_data.total_nodes
    IN  IF total_nodes = 0 THEN "critical"
        ELSE IF ready_nodes = total_nodes THEN "healthy"
        ELSE IF 2 * ready_nodes > total_nodes THEN "warning"
        ELSE "critical"

HealthStatus(node_summary_data) ==
    LET ready_nodes == Cardinality({i \in 1..Len(node_summary_data.nodes) :
                                        node_summary_data.nodes[i].status = "True"})
        total_nodes == node_summary_data.total_nodes
    IN  IF total_nodes = 0 THEN "critical"
        ELSE IF ready_nodes = total_nodes THEN "healthy"
        ELSE IF 2 * ready_nodes >= total_nodes THEN "warning"
        ELSE "critical"

\* The ClusterStatusResponse built from the summary `summary` of the row
HealthOfSummary(cluster_id, summary) ==
    [ret |-> Ok([cluster_id |-> cluster_id,
                 name |-> summary.rows[cluster_id].name,
                 status |-> summary.rows[cluster_id].status,
                 node_summary |-> IF "error" \in DOMAIN summary.ret THEN None
                                  ELSE summary.ret,
                 health_status |-> IF "error" \in DOMAIN summary.ret THEN "unknown"
                                   ELSE HealthStatus(summary.ret)]),
     rows |-> summary.rows, starts |-> summary.starts, left |-> summary.left,
     decrypted |-> summary.decrypted]

GetClusterHealth(rows, key, cluster_id, user_id, run) ==
    IF NotFoundOrForeign(rows, cluster_id, user_id)
    THEN [ret |-> Err("Cluster not found or access denied"), rows |-> rows,
          starts |-> 0, left |-> 0, decrypted |-> FALSE]
    ELSE HealthOfSummary(cluster_id,
                         GetClusterNodeSummary(rows, key, cluster_id, user_id, run))

\* refresh_cluster_nodes
RefreshResult(result) ==
    [ret |-> IF "error" \in DOMAIN result.ret
             THEN [error |-> result.ret.error]
             ELSE [message |-> "Cluster nodes refreshed successfully", data |-> result.ret],
     rows |-> result.rows, queried |-> result.queried,
     starts |-> result.starts, left |-> result.left, decrypted |-> result.decrypted]

RefreshClusterNodes(rows, key, cluster_id, user_id, run) ==
    RefreshResult(GetClusterNodeSummary(rows, key, cluster_id, user_id, run))

\* A row of kubernetes_clusters
Row(name, cluster_type, auth_type, master_nodes, worker_nodes, api_server, kubeconfig, status, user_id) ==
    [name |-> name, cluster_type |-> cluster_type, auth_type |-> auth_type,
     master_nodes |-> master_nodes, worker_nodes |-> worker_nodes,
     api_server |-> api_server, kubeconfig |-> kubeconfig, status |-> status,
     user_id |-> user_id]

Insert(rows, id, row) == [i \in DOMAIN rows \cup {id} |-> IF i = id THEN row ELSE rows[i]]

\* create_cluster: cluster_data is [name, master_nodes, worker_nodes]; the
\* columns it does not set take their defaults
CreateCluster(rows, cluster_data, user_id) ==
    IF GetClusterByName(rows, cluster_data.name, user_id)
    THEN [res |-> Err("Cluster with this name already exists"), rows |-> rows]
    ELSE LET cluster == Row(cluster_data.name, "new", "kubeconfig",
                            cluster_data.master_nodes, cluster_data.worker_nodes,
                            None, None, "creating", user_id) IN
         [res |-> Ok(cluster), rows |-> Insert(rows, NewId(rows), cluster)]

\* The API server register_existing_cluster reads out of a kubeconfig; any
\* exception leaves it None
ExtractApiServer(auth_data) ==
    LET loaded == YamlLoad(auth_data) IN
    IF ~loaded.ok \/ IsNone(loaded.v) \/ "scalar" \in DOMAIN loaded.v THEN None
    ELSE LET listed == Get(loaded.v, "clusters", <<>>) IN
         IF listed = <<>> THEN None
         ELSE LET cluster == Get(listed[1], "cluster", EmptyDict) IN
              IF IsNone(cluster) THEN None ELSE Get(cluster, "server", None)

\* register_existing_cluster: what it returns or raises, the table afterwards,
\* whether encrypt_data was called, and the dict of the first node summary
\* (faulty variant: the row is committed before the credentials are encrypted)
RegisterExistingClusterEarlyCommit(rows, key, iv, cluster_data, user_id, run) ==
    IF GetClusterByName(rows, cluster_data.name, user_id)
    THEN [res |-> Err("Cluster with this name already exists"), rows |-> rows,
          id |-> 0, enc |-> FALSE, summary |-> None]
    ELSE LET encrypted == EncryptData(key, iv, cluster_data.auth_data)
             cluster == Row(cluster_data.name, "existing", cluster_data.auth_type, 0, 0,
                            cluster_data.api_server,
                            IF encrypted.ok THEN encrypted.v ELSE None,
                            "registered", user_id)
             id == NewId(rows) IN
         [res |-> IF encrypted.ok THEN Ok(cluster)
                  ELSE Err("Failed to secure cluster credentials"),
          rows |-> Insert(rows, id, cluster), id |-> id, enc |-> TRUE, summary |-> None]

\* After the commit: the first node summary `first` of the new row `id`
RegisterFirstSummary(id, first) ==
    [res |-> Ok(first.rows[id]), rows |-> first.rows, id |-> id, enc |-> TRUE,
     summary |-> first.ret]

\* From the result `encrypted` of encrypt_data to the commit
RegisterStore(rows, key, cluster_data, user_id, run, api_server, encrypted) ==
    IF ~encrypted.ok
    THEN [res |-> Err("Failed to secure cluster credentials"), rows |-> rows,
          id |-> 0, enc |-> TRUE, summary |-> None]
    ELSE RegisterFirstSummary(
            NewId(rows),
            GetClusterNodeSummary(
                Insert(rows, NewId(rows),
                       Row(cluster_data.name, "existing", cluster_data.auth_type, 0, 0,
                           api_server, encrypted.v, "registered", user_id)),
                key, NewId(rows), user_id, run))

\* From the API server found for the request
RegisterWithApiServer(rows, key, iv, cluster_data, user_id, run, api_server) ==
    IF cluster_data.auth_type = "token" /\ Falsy(api_server)
    THEN [res |-> Err("API server URL is required for token authentication"),
          rows |-> rows, id |-> 0, enc |-> FALSE, summary |-> None]
    ELSE RegisterStore(rows, key, cluster_data, user_id, run, api_server,
                       EncryptData(key, iv, cluster_data.auth_data))

RegisterExistingCluster(rows, key, iv, cluster_data, user_id, run) ==
    IF GetClusterByName(rows, cluster_data.name, user_id)
    THEN [res |-> Err("Cluster with this name already exists"), rows |-> rows,
          id |-> 0, enc |-> FALSE, summary |-> None]
    ELSE RegisterWithApiServer(rows, key, iv, cluster_data, user_id, run,
            IF cluster_data.auth_type = "token" THEN cluster_data.api_server
            ELSE IF cluster_data.auth_type = "kubeconfig"
            THEN ExtractApiServer(cluster_data.auth_data)
            ELSE None)

\* update_cluster (the PUT route): cluster_data is [name, status], None for a
\* field the request leaves out
UpdateCluster(rows, cluster_id, cluster_data, user_id) ==
    IF NotFoundOrForeign(rows, cluster_id, user_id)
    THEN [res |-> Err("Cluster not found"), rows |-> rows]
    ELSE LET named == IF IsNone(cluster_data.name) THEN rows
                      ELSE [rows EXCEPT ![cluster_id].name = cluster_data.name.lit]
             updated == IF IsNone(cluster_data.status) THEN named
                        ELSE [named EXCEPT ![cluster_id].status = cluster_data.status.lit] IN
         [res |-> Ok(updated[cluster_id]), rows |-> updated]

\* fix_cluster_api_server
FixClusterApiServer(rows, cluster_id, api_server, user_id) ==
    IF NotFoundOrForeign(rows, cluster_id, user_id)
    THEN [ret |-> None, rows |-> rows]
    ELSE LET updated == [rows EXCEPT ![cluster_id].api_server = api_server] IN
         [ret |-> updated[cluster_id], rows |-> updated]

\* migrate_cluster_encryption
MigrateClusterEncryption(rows, key, iv, cluster_id, user_id, new_kubeconfig) ==
    IF NotFoundOrForeign(rows, cluster_id, user_id)
    THEN [ret |-> FALSE, rows |-> rows]
    ELSE LET encrypted == EncryptData(key, iv, new_kubeconfig) IN
         IF ~encrypted.ok THEN [ret |-> FALSE, rows |-> rows]
         ELSE [ret |-> TRUE,
               rows |-> [rows EXCEPT ![cluster_id].kubeconfig = encrypted.v,
                                     ![cluster_id].status = "registered"]]

\* debug_cluster_data: the dict returned for the row `cluster`, the live
\* query having returned or raised `nodes_info` (any exception is swallowed)
DebugData(cluster, auth_data, live_data_available, starts, left) ==
    [ret |-> [name |-> cluster.name, auth_type |-> cluster.auth_type,
              api_server |-> cluster.api_server,
              has_kubeconfig |-> ~Falsy(cluster.kubeconfig),
              status |-> cluster.status,
              master_nodes_db |-> cluster.master_nodes,
              worker_nodes_db |-> cluster.worker_nodes,
              live_data_available |-> live_data_available,
              auth_data_length |-> IF Falsy(auth_data) THEN 0 ELSE Len(auth_data.str)],
     starts |-> starts, left |-> left]

DebugOfNodes(cluster, auth_data, nodes_info) ==
    DebugData(cluster, auth_data, nodes_info.ok /\ Len(nodes_info.v) > 0,
              nodes_info.starts, nodes_info.left)

DebugWithAuth(cluster, run, auth) ==
    IF Falsy(auth[1]) THEN DebugData(cluster, auth[1], FALSE, 0, 0)
    ELSE DebugOfNodes(cluster, auth[1],
                      GetKubectlNodes(auth[1], auth[2].lit, cluster.api_server, run))

DebugClusterData(rows, key, cluster_id, user_id, run) ==
    IF NotFoundOrForeign(rows, cluster_id, user_id)
    THEN [ret |-> [error |-> "Cluster not found"], starts |-> 0, left |-> 0,
          decrypted |-> FALSE]
    ELSE Decrypted(DebugWithAuth(rows[cluster_id], run,
                                 GetClusterAuthData(rows, key, cluster_id, user_id).ret),
                   GetClusterAuthData(rows, key, cluster_id, user_id).decrypted)

\* A row of cluster_nodes; ip_address and created_at are left out
NodeRow(cluster_id, node_type, hostname, status) ==
    [cluster_id |-> cluster_id, node_type |-> node_type, hostname |-> hostname,
     status |-> status]

\* add_cluster_node: node_data is [node_type, hostname]; the foreign key of
\* cluster_nodes.cluster_id refuses a row of a cluster that does not exist
AddClusterNode(rows, nodes, cluster_id, node_data) ==
    IF cluster_id \notin DOMAIN rows
    THEN [res |-> Err("IntegrityError"), nodes |-> nodes]
    ELSE LET node == NodeRow(cluster_id, node_data.node_type, node_data.hostname, "pending") IN
         [res |-> Ok(node), nodes |-> Insert(nodes, NewId(nodes), node)]

\* get_cluster_nodes: the ids of the node rows of the cluster
GetClusterNodes(nodes, cluster_id) ==
    {n \in DOMAIN nodes : nodes[n].cluster_id = cluster_id}

\* The table without the rows `ids`
Delete(rows, ids) == [i \in DOMAIN rows \ ids |-> rows[i]]

\* delete_cluster: the bool returned and both tables afterwards
\* (faulty variant: the node rows of every cluster are deleted)
DeleteClusterEveryNode(rows, nodes, cluster_id, user_id) ==
    IF NotFoundOrForeign(rows, cluster_id, user_id)
    THEN [ret |-> FALSE, rows |-> rows, nodes |-> nodes]
    ELSE [ret |-> TRUE, rows |-> Delete(rows, {cluster_id}),
          nodes |-> Delete(nodes, DOMAIN nodes)]

DeleteCluster(rows, nodes, cluster_id, user_id) ==
    IF NotFoundOrForeign(rows, cluster_id, user_id)
    THEN [ret |-> FALSE, rows |-> rows, nodes |-> nodes]
    ELSE [ret |-> TRUE, rows |-> Delete(rows, {cluster_id}),
          nodes |-> Delete(nodes, GetClusterNodes(nodes, cluster_id))]

\* update_cluster_status
UpdateClusterStatus(rows, cluster_id, status, user_id) ==
    IF NotFoundOrForeign(rows, cluster_id, user_id)
    THEN [ret |-> None, rows |-> rows]
    ELSE LET updated == [rows EXCEPT ![cluster_id].status = status] IN
         [ret |-> updated[cluster_id], rows |-> updated]

\* POST /clusters/register/upload up to the construction of the request: the
\* file is [yaml_name, utf8, text], `test` is how the route's own kubectl
\* call ended; Ok is the text to register, Err the HTTP error
CheckUpload(file, test) ==
    IF ~file.yaml_name THEN Err("400 File must be a YAML file")
    ELSE IF ~file.utf8 THEN Err("500 Error processing file")
    ELSE LET loaded == YamlLoad(file.text) IN
         IF ~loaded.ok THEN Err("400 Invalid YAML in kubeconfig")
         ELSE IF IsNone(loaded.v) THEN Err("400 Invalid kubeconfig")
         ELSE IF ~In(WordClusters, "clusters", loaded.v) \/ ~In(WordUsers, "users", loaded.v)
         THEN Err("400 Invalid kubeconfig")
         ELSE CASE test.kind = "timeout" -> Err("400 Connection to cluster timed out")
                [] test.kind = "exit" ->
                      IF ConnectMarker \in test.stderr
                      THEN Err("400 Cannot connect to cluster API server")
                      ELSE IF "Forbidden" \in test.stderr \/ "Unauthorized" \in test.stderr
                      THEN Err("400 Authentication failed")
                      ELSE Err("400 Kubeconfig is valid but cannot connect to cluster")
                [] OTHER -> Ok(file.text)

----------------------------------------------------------------------------
(* The codec on its own: encrypt_data, decrypt_data and rotate_key called   *)
(* with strings and key strings of every shape.                            *)

MaxIssued == 2

Plaintexts ==
    {EmptyStr, Str(<<"a">>), Str(<<" ">>), Str(<<"a", "b">>),
     Str(<<"a", LoneSurrogate>>)}

\* What decrypt_data may be handed: a blob encrypt_data returned, or other text
Ciphertexts == {e.blob : e \in issued} \cup {EmptyStr, Str(<<"a">>)}

NoClusters == [i \in {} |-> None]

\* After construction: a key is resolved, the table is empty
Init ==
    /\ cipher_suite \in KeyMaterial
    /\ secret_key = cipher_suite
    /\ clusters = NoClusters
    /\ issued = {}
    /\ environ = Environment(KeyStrOf(cipher_suite), Absent, NoKeyFiles)
    /\ rotation = None
    /\ background_tasks = <<>>
    /\ job_executions = <<>>
    /\ inventory = <<>>
    /\ playbooks = <<>>
    /\ cluster_nodes = NoClusters
    /\ last = [op |-> "init"]

EncryptCall(data, iv) ==
    LET res == EncryptData(cipher_suite, iv, data)
        new == IF res.ok /\ res.v # EmptyStr
               THEN {[pt |-> data, blob |-> res.v, under |-> cipher_suite]}
               ELSE {}
    IN  /\ Cardinality(issued \cup new) <= MaxIssued
        /\ issued' = issued \cup new
        /\ last' = [op |-> "encrypt_data", arg |-> data, res |-> res]
        /\ UNCHANGED <<background_tasks, job_executions, inventory, playbooks, cluster_nodes, environ, rotation, cipher_suite, secret_key, clusters>>

DecryptCall(encrypted_data) ==
    /\ last' = [op |-> "decrypt_data", arg |-> encrypted_data,
                res |-> DecryptData(cipher_suite, encrypted_data)]
    /\ UNCHANGED <<background_tasks, job_executions, inventory, playbooks, cluster_nodes, environ, rotation, cipher_suite, secret_key, clusters, issued>>

RotateCall(new_key, iv) ==
    LET out == RotateKey(cipher_suite, new_key, iv) IN
    /\ cipher_suite' = out.cipher
    /\ last' = [op |-> "rotate_key", key |-> new_key, ret |-> out.ret]
    /\ UNCHANGED <<background_tasks, job_executions, inventory, playbooks, cluster_nodes, environ, rotation, secret_key, clusters, issued>>

GetKeyFingerprintCall ==
    /\ last' = [op |-> "get_key_fingerprint", ret |-> GetKeyFingerprint(secret_key)]
    /\ UNCHANGED <<background_tasks, job_executions, inventory, playbooks, cluster_nodes, environ, rotation, cipher_suite, secret_key, clusters, issued>>

\* EncryptionManager(): resolve the key, then Fernet(key).  When either raises
\* there is no manager.  `saved` remembers the generated key that was persisted.
Constructed(out, cipher, saved_before) ==
    /\ cipher_suite' = IF cipher.ok THEN cipher.v ELSE None
    /\ secret_key' = IF cipher.ok THEN cipher.v ELSE None
    /\ environ' = [environ EXCEPT !.key_files = out.key_files]
    /\ last' = [op |-> "construct", env |-> environ, raised |-> ~cipher.ok,
                source |-> out.source, key |-> out.key, key_saved |-> out.key_saved,
                saved_before |-> saved_before, writable |-> out.writable,
                saved |-> IF out.key_saved THEN out.key ELSE saved_before]
    /\ UNCHANGED <<background_tasks, job_executions, inventory, playbooks, cluster_nodes, clusters, issued, rotation>>

NewManager(out, saved_before) ==
    Constructed(out, IF out.raised THEN Err("ValueError") ELSE Fernet(out.key), saved_before)

Construct(new_key, outcome) ==
    NewManager(GetProductionSecretKey(environ, KeyStrOf(new_key), outcome)
                    @@ [writable |-> Writable(outcome)],
               Get(last, "saved", None))

\* Between two starts of the process the deployment changes what resolution reads
SetEnvironmentKey(env_key) ==
    /\ env_key # environ.env_key
    /\ environ' = [environ EXCEPT !.env_key = env_key]
    /\ last' = [op |-> "environment"]
    /\ UNCHANGED <<background_tasks, job_executions, inventory, playbooks, cluster_nodes, cipher_suite, secret_key, clusters, issued, rotation>>

SetSecretFile(file) ==
    /\ file # environ.secret_file
    /\ environ' = [environ EXCEPT !.secret_file = file]
    /\ last' = [op |-> "environment"]
    /\ UNCHANGED <<background_tasks, job_executions, inventory, playbooks, cluster_nodes, cipher_suite, secret_key, clusters, issued, rotation>>

SetKeyFile(path, file) ==
    /\ file # environ.key_files[path]
    /\ environ' = [environ EXCEPT !.key_files[path] = file]
    /\ last' = [op |-> "environment"]
    /\ UNCHANGED <<background_tasks, job_executions, inventory, playbooks, cluster_nodes, cipher_suite, secret_key, clusters, issued, rotation>>

\* Fernet.generate_key() draws one of these
GeneratedKeys == {"g1", "g2"}

\* Before the first start: nothing configured, no manager
InitKeys ==
    /\ cipher_suite = None
    /\ secret_key = None
    /\ clusters = NoClusters
    /\ issued = {}
    /\ environ = Environment(None, Absent, NoKeyFiles)
    /\ rotation = None
    /\ background_tasks = <<>>
    /\ job_executions = <<>>
    /\ inventory = <<>>
    /\ playbooks = <<>>
    /\ cluster_nodes = NoClusters
    /\ last = [op |-> "init"]

NextKeys ==
    \/ \E new_key \in GeneratedKeys, outcome \in LocationOutcomes : Construct(new_key, outcome)
    \/ \E env_key \in {None, KeyStrEmpty, KeyStrA, KeyStrShort} : SetEnvironmentKey(env_key)
    \/ \E file \in {Absent, Unreadable, KeyStrB, KeyStrLong} : SetSecretFile(file)
    \/ \E path \in {AppDataKeyFile, AppKeyFile, CwdKeyFile},
          file \in {Absent, Unreadable, KeyStrA, KeyStrNotB64} : SetKeyFile(path, file)

SpecKeys == InitKeys /\ [][NextKeys]_vars

\* rotate_key statement by statement, as another thread sees it: first the
\* validation and the assignment of the candidate to self.cipher_suite ...
RotateAssign(new_key) ==
    /\ rotation = None
    /\ background_tasks = <<>>
    /\ job_executions = <<>>
    /\ inventory = <<>>
    /\ playbooks = <<>>
    /\ cluster_nodes = NoClusters
    /\ IF ValidateAndDecodeKey(new_key).ok
       THEN /\ cipher_suite' = ValidateAndDecodeKey(new_key).v
            /\ rotation' = [old_cipher_suite |-> cipher_suite, key |-> new_key]
            /\ last' = [op |-> "rotate_key", key |-> new_key, at |-> "self-test"]
       ELSE /\ last' = [op |-> "rotate_key", key |-> new_key, ret |-> FALSE]
            /\ UNCHANGED <<cipher_suite, rotation>>
    /\ UNCHANGED <<background_tasks, job_executions, inventory, playbooks, cluster_nodes, secret_key, clusters, issued, environ>>

\* ... then the self-test and the return
Returned(key, out) ==
    /\ cipher_suite' = out.cipher
    /\ rotation' = None
    /\ last' = [op |-> "rotate_key", key |-> key, ret |-> out.ret]
    /\ UNCHANGED <<background_tasks, job_executions, inventory, playbooks, cluster_nodes, secret_key, clusters, issued, environ>>

RotateSelfTest(iv) ==
    /\ rotation # None
    /\ Returned(rotation.key, SelfTest(cipher_suite, rotation.old_cipher_suite, iv))

NextRotate ==
    \/ \E k \in {KeyStrA, KeyStrB, KeyStrShort} : RotateAssign(k)
    \/ \E iv \in IVs : RotateSelfTest(iv)
    \/ \E data \in {EmptyStr, Str(<<"a">>)}, iv \in IVs : EncryptCall(data, iv)
    \/ \E x \in Ciphertexts : DecryptCall(x)

SpecRotate == Init /\ [][NextRotate]_vars

NextCodec ==
    \/ \E data \in Plaintexts, iv \in IVs : EncryptCall(data, iv)
    \/ GetKeyFingerprintCall
    \/ \E x \in Ciphertexts : DecryptCall(x)
    \/ \E k \in KeyStrings, iv \in IVs : RotateCall(k, iv)

SpecCodec == Init /\ [][NextCodec]_vars

----------------------------------------------------------------------------
(* The cluster registry: the routes and service calls of two users on a     *)
(* table of at most MaxClusters rows, with key rotation in between.         *)

Users == {"u1", "u2"}
Names == {"a", "b"}

Values(name, auth_data, auth_type, api_server) ==
    [name |-> name, auth_data |-> auth_data, auth_type |-> auth_type,
     api_server |-> api_server]

\* Requests that pass validate_all_fields (the last one cannot be encrypted)
ValidRequests(names) ==
    {Values(n, Token10, "token", ApiHttps) : n \in names}
    \cup {Values(n, KcValid, "kubeconfig", None) : n \in names}
    \cup {Values(n, TokenSurrogate, "token", ApiHttp) : n \in names}

\* Requests that do not
InvalidRequests(names) ==
    {Values(n, kc, "kubeconfig", None) :
        n \in names,
        kc \in {KcNoApiVersion, KcNoClusters, KcEmptyClusters, KcNoServer, KcNoClusterKey,
                KcNullCluster, KcNotYaml, Token10, Blank}}
    \cup {Values(n, tok, "token", ApiHttps) : n \in names, tok \in {Token9, Token9Padded}}
    \cup {Values(n, Token10, "token", api) : n \in names, api \in {None, EmptyStr, ApiNoScheme}}
    \cup {Values(n, Token10, ty, ApiHttps) : n \in names, ty \in {"", "cert"}}

CreateClusterCall(user, name) ==
    LET out == CreateCluster(clusters, [name |-> name, master_nodes |-> 1, worker_nodes |-> 2],
                             user) IN
    /\ clusters' = out.rows
    /\ last' = [op |-> "create_cluster", user |-> user, name |-> name, res |-> out.res]
    /\ UNCHANGED <<background_tasks, job_executions, inventory, playbooks, cluster_nodes, environ, rotation, cipher_suite, secret_key, issued>>

\* The service has returned or raised `out`
Registered(route, user, values, out) ==
    /\ clusters' = out.rows
    /\ last' = [op |-> "register_cluster", route |-> route, user |-> user,
                values |-> values, service |-> TRUE, res |-> out.res, id |-> out.id,
                enc |-> out.enc, summary |-> out.summary]
    /\ UNCHANGED <<background_tasks, job_executions, inventory, playbooks, cluster_nodes, environ, rotation, cipher_suite, secret_key, issued>>

\* The construction of ExistingClusterRegister(values) followed by the call
\* of register_existing_cluster: `service` is whether the service was called
Register(route, user, values, iv, run) ==
    IF ~ValidateAllFields(values).ok
    THEN /\ last' = [op |-> "register_cluster", route |-> route, user |-> user,
                     values |-> values, service |-> FALSE,
                     res |-> ValidateAllFields(values), id |-> 0,
                     enc |-> FALSE, summary |-> None]
         /\ UNCHANGED <<background_tasks, job_executions, inventory, playbooks, cluster_nodes, environ, rotation, cipher_suite, secret_key, clusters, issued>>
    ELSE Registered(route, user, values,
                    RegisterExistingCluster(clusters, cipher_suite, iv, values, user, run))

\* POST /clusters/register: the body is validated, then the service is called
RegisterClusterCall(user, values, iv, run) == Register("json", user, values, iv, run)

\* POST /clusters/register/upload
RegisterClusterWithUploadCall(user, name, file, test, iv, run) ==
    LET checked == CheckUpload(file, test)
        values == Values(name, file.text, "kubeconfig", None) IN
    IF ~checked.ok
    THEN /\ last' = [op |-> "register_cluster", route |-> "upload", user |-> user,
                     values |-> values, service |-> FALSE, res |-> checked, id |-> 0,
                     enc |-> FALSE, summary |-> None]
         /\ UNCHANGED <<background_tasks, job_executions, inventory, playbooks, cluster_nodes, environ, rotation, cipher_suite, secret_key, clusters, issued>>
    ELSE Register("upload", user, values, iv, run)

UpdateClusterCall(user, cluster_id, cluster_data) ==
    LET out == UpdateCluster(clusters, cluster_id, cluster_data, user) IN
    /\ clusters' = out.rows
    /\ last' = [op |-> "update_cluster", user |-> user, id |-> cluster_id, res |-> out.res]
    /\ UNCHANGED <<background_tasks, job_executions, inventory, playbooks, cluster_nodes, environ, rotation, cipher_suite, secret_key, issued>>

GetClusterAuthDataCall(cluster_id, user) ==
    LET out == GetClusterAuthData(clusters, cipher_suite, cluster_id, user) IN
    /\ last' = [op |-> "get_cluster_auth_data", user |-> user, id |-> cluster_id,
                ret |-> out.ret, raised |-> out.raised, decrypted |-> out.decrypted]
    /\ UNCHANGED <<background_tasks, job_executions, inventory, playbooks, cluster_nodes, environ, rotation, cipher_suite, secret_key, clusters, issued>>

\* How the list-nodes command ended, None when the call did not start it
Ended(starts, run) == IF starts > 0 THEN run ELSE None

\* What the list-nodes command of `run` listed, None when it listed nothing
Listed(run) == IF run.kind = "nodes" THEN [items |-> run.items] ELSE None

GetClusterNodeSummaryCall(cluster_id, user, run) ==
    LET out == GetClusterNodeSummary(clusters, cipher_suite, cluster_id, user, run) IN
    /\ clusters' = out.rows
    /\ last' = [op |-> "get_cluster_node_summary", user |-> user, id |-> cluster_id,
                listed |-> Listed(run), ret |-> out.ret, queried |-> out.queried,
                starts |-> out.starts, left |-> out.left, decrypted |-> out.decrypted,
                ended |-> Ended(out.starts, run)]
    /\ UNCHANGED <<background_tasks, job_executions, inventory, playbooks, cluster_nodes, environ, rotation, cipher_suite, secret_key, issued>>

RefreshClusterNodesCall(cluster_id, user, run) ==
    LET out == RefreshClusterNodes(clusters, cipher_suite, cluster_id, user, run) IN
    /\ clusters' = out.rows
    /\ last' = [op |-> "refresh_cluster_nodes", user |-> user, id |-> cluster_id,
                ret |-> out.ret, queried |-> out.queried,
                starts |-> out.starts, left |-> out.left, decrypted |-> out.decrypted,
                ended |-> Ended(out.starts, run)]
    /\ UNCHANGED <<background_tasks, job_executions, inventory, playbooks, cluster_nodes, environ, rotation, cipher_suite, secret_key, issued>>

\* GET /clusters/{id}/health
HealthReturned(user, cluster_id, run, out) ==
    /\ clusters' = out.rows
    /\ last' = [op |-> "get_cluster_health", user |-> user, id |-> cluster_id,
                listed |-> Listed(run), ret |-> out.ret,
                starts |-> out.starts, left |-> out.left, decrypted |-> out.decrypted,
                ended |-> Ended(out.starts, run)]
    /\ UNCHANGED <<background_tasks, job_executions, inventory, playbooks, cluster_nodes, environ, rotation, cipher_suite, secret_key, issued>>

GetClusterHealthCall(cluster_id, user, run) ==
    HealthReturned(user, cluster_id, run,
                   GetClusterHealth(clusters, cipher_suite, cluster_id, user, run))

FixClusterApiServerCall(cluster_id, api_server, user) ==
    LET out == FixClusterApiServer(clusters, cluster_id, api_server, user) IN
    /\ clusters' = out.rows
    /\ last' = [op |-> "fix_cluster_api_server", user |-> user, id |-> cluster_id,
                ret |-> out.ret]
    /\ UNCHANGED <<background_tasks, job_executions, inventory, playbooks, cluster_nodes, environ, rotation, cipher_suite, secret_key, issued>>

MigrateClusterEncryptionCall(cluster_id, user, new_kubeconfig, iv) ==
    LET out == MigrateClusterEncryption(clusters, cipher_suite, iv, cluster_id, user,
                                        new_kubeconfig) IN
    /\ clusters' = out.rows
    /\ last' = [op |-> "migrate_cluster_encryption", user |-> user, id |-> cluster_id,
                payload |-> new_kubeconfig, ret |-> out.ret]
    /\ UNCHANGED <<background_tasks, job_executions, inventory, playbooks, cluster_nodes, environ, rotation, cipher_suite, secret_key, issued>>

AddClusterNodeCall(cluster_id, node_data) ==
    LET out == AddClusterNode(clusters, cluster_nodes, cluster_id, node_data) IN
    /\ cluster_nodes' = out.nodes
    /\ last' = [op |-> "add_cluster_node", id |-> cluster_id, res |-> out.res]
    /\ UNCHANGED <<background_tasks, job_executions, inventory, playbooks, clusters, environ, rotation, cipher_suite, secret_key, issued>>

\* DELETE /clusters/{id}: `removed` is the number of node rows the cluster had
DeleteClusterCall(cluster_id, user) ==
    LET out == DeleteCluster(clusters, cluster_nodes, cluster_id, user) IN
    /\ clusters' = out.rows
    /\ cluster_nodes' = out.nodes
    /\ last' = [op |-> "delete_cluster", user |-> user, id |-> cluster_id, ret |-> out.ret,
                removed |-> Cardinality(GetClusterNodes(cluster_nodes, cluster_id))]
    /\ UNCHANGED <<background_tasks, job_executions, inventory, playbooks, environ, rotation, cipher_suite, secret_key, issued>>

UpdateClusterStatusCall(cluster_id, status, user) ==
    LET out == UpdateClusterStatus(clusters, cluster_id, status, user) IN
    /\ clusters' = out.rows
    /\ last' = [op |-> "update_cluster_status", user |-> user, id |-> cluster_id,
                ret |-> out.ret]
    /\ UNCHANGED <<background_tasks, job_executions, inventory, playbooks, cluster_nodes, environ, rotation, cipher_suite, secret_key, issued>>

\* GET /{id}/debug
DebugClusterDataCall(cluster_id, user, run) ==
    LET out == DebugClusterData(clusters, cipher_suite, cluster_id, user, run) IN
    /\ last' = [op |-> "debug_cluster_data", user |-> user, id |-> cluster_id,
                ret |-> out.ret, starts |-> out.starts, left |-> out.left,
                decrypted |-> out.decrypted]
    /\ UNCHANGED <<background_tasks, job_executions, inventory, playbooks, cluster_nodes, environ, rotation, cipher_suite, secret_key, clusters, issued>>

\* The table does not outgrow `n` rows; the ids a call may name
Fits(n) == Cardinality(DOMAIN clusters') <= n
ClusterIds == 1..MaxClusters

SuccessRun == [kind |-> "nodes", items |-> <<ControlPlaneNode, WorkerNode>>]
TimeoutRun == [kind |-> "timeout"]
FailedRuns ==
    {[kind |-> "exit", stderr |-> {ConnectMarker}],
     [kind |-> "exit", stderr |-> {"Forbidden"}],
     [kind |-> "exit", stderr |-> {}],
     TimeoutRun,
     [kind |-> "badjson"]}

\* Files a user may upload
Uploads ==
    {[yaml_name |-> TRUE, utf8 |-> TRUE, text |-> kc] :
        kc \in {KcValid, KcUsersNoApiVersion, KcNoClusters, KcNotYaml, Blank}}
    \cup {[yaml_name |-> FALSE, utf8 |-> TRUE, text |-> KcValid],
          [yaml_name |-> TRUE, utf8 |-> FALSE, text |-> KcNotYaml]}

\* Key rotation over stored credentials: u1 creates and registers clusters,
\* the key is rotated, either user resolves, queries and migrates them.
Next ==
    \/ CreateClusterCall("u1", "a") /\ Fits(MaxClusters)
    \/ \E v \in {Values("b", Token10, "token", ApiHttps), Values("c", KcValid, "kubeconfig", None)} :
            RegisterClusterCall("u1", v, 1, TimeoutRun) /\ Fits(MaxClusters)
    \/ \E u \in Users, id \in ClusterIds, kc \in {KcValid, EmptyStr, TokenSurrogate} :
            MigrateClusterEncryptionCall(id, u, kc, 2)
    \/ \E k \in {KeyStrA, KeyStrB, KeyStrShort} : RotateCall(k, 1)
    \/ \E u \in Users, id \in ClusterIds \cup {MaxClusters + 1} : GetClusterAuthDataCall(id, u)
    \/ \E u \in Users, id \in ClusterIds, run \in {SuccessRun, TimeoutRun} :
            GetClusterNodeSummaryCall(id, u, run)

Spec == Init /\ [][Next]_vars

\* Registration: both users send requests of every shape, and the first node
\* query ends in every way.
NextRegister ==
    \/ \E u \in Users, v \in ValidRequests({"a"}), run \in FailedRuns \cup {SuccessRun} :
            RegisterClusterCall(u, v, 1, run) /\ Fits(MaxClusters)
    \/ RegisterClusterCall("u1", Values("a", Token10Padded, "token", ApiHttp), 1, SuccessRun)
            /\ Fits(MaxClusters)
    \/ \E u \in Users, v \in InvalidRequests({"a"}) :
            RegisterClusterCall(u, v, 1, TimeoutRun)
    \/ \E u \in Users, file \in Uploads, test \in {SuccessRun, TimeoutRun},
          run \in {SuccessRun, TimeoutRun} :
            RegisterClusterWithUploadCall(u, "a", file, test, 1, run) /\ Fits(MaxClusters)

SpecRegister == Init /\ [][NextRegister]_vars

\* Names: create, register and rename by two users over two names.
NextNames ==
    \/ \E u \in Users, n \in Names : CreateClusterCall(u, n) /\ Fits(MaxClusters + 1)
    \/ \E u \in Users, n \in Names :
            RegisterClusterCall(u, Values(n, Token10, "token", ApiHttps), 1, TimeoutRun)
            /\ Fits(MaxClusters + 1)
    \/ \E u \in Users, id \in 1..(MaxClusters + 1), n \in Names :
            UpdateClusterCall(u, id, [name |-> Lit(n), status |-> None])

SpecNames == Init /\ [][NextNames]_vars

\* Node queries: u1 registers clusters, their API server and status are
\* edited, their credentials replaced, and the nodes queried by either user.
NextQuery ==
    \/ \E v \in {Values("a", Token10, "token", ApiHttps), Values("b", KcValid, "kubeconfig", None)},
          run \in {SuccessRun, TimeoutRun} :
            RegisterClusterCall("u1", v, 1, run) /\ Fits(MaxClusters)
    \/ \E id \in ClusterIds : FixClusterApiServerCall(id, EmptyStr, "u1")
    \/ \E id \in ClusterIds :
            UpdateClusterCall("u1", id, [name |-> None, status |-> Lit("error")])
    \/ \E id \in ClusterIds : MigrateClusterEncryptionCall(id, "u1", EmptyStr, 1)
    \/ RotateCall(KeyStrB, 1)
    \/ \E u \in Users, id \in ClusterIds, run \in FailedRuns \cup {SuccessRun} :
            GetClusterNodeSummaryCall(id, u, run)
    \/ \E u \in Users, id \in ClusterIds, run \in FailedRuns \cup {SuccessRun} :
            RefreshClusterNodesCall(id, u, run)

SpecQuery == Init /\ [][NextQuery]_vars

\* Every way the list-nodes step may end, the diagnostics carrying any of the
\* markers the classification looks for
ExitRuns ==
    {[kind |-> "exit", stderr |-> markers] :
        markers \in SUBSET {ConnectMarker, "Forbidden", "Unauthorized"}}

AllRuns == ExitRuns \cup {TimeoutRun, SuccessRun, [kind |-> "badjson"], [kind |-> "nowrite"]}

\* Queries of every outcome: u1 registers a cluster by token or by kubeconfig,
\* and both users ask for its summary, its refresh and its health.
NextRuns ==
    \/ \E v \in {Values("a", Token10, "token", ApiHttps), Values("a", KcValid, "kubeconfig", None)},
          run \in {SuccessRun, TimeoutRun} :
            RegisterClusterCall("u1", v, 1, run) /\ Fits(MaxClusters)
    \/ \E u \in Users, id \in ClusterIds, run \in AllRuns : GetClusterNodeSummaryCall(id, u, run)
    \/ \E u \in Users, id \in ClusterIds, run \in AllRuns : RefreshClusterNodesCall(id, u, run)
    \/ \E u \in Users, id \in ClusterIds, run \in AllRuns : GetClusterHealthCall(id, u, run)

SpecRuns == Init /\ [][NextRuns]_vars

\* Node snapshots: what `kubectl get nodes` lists, up to MaxNodes nodes
MaxNodes == 4

NodeKinds == <<ControlPlaneNode, MasterNode, LegacyMasterNode, WorkerNode, LabelledWorkerNode>>

SortedKinds(n) ==
    {f \in [1..n -> 1..Len(NodeKinds)] : \A i \in 1..(n - 1) : f[i] <= f[i + 1]}

Snapshots ==
    UNION {{[i \in 1..n |-> NodeKinds[f[i]]] : f \in SortedKinds(n)} : n \in 0..MaxNodes}

NodeRuns == {[kind |-> "nodes", items |-> items] : items \in Snapshots} \cup {TimeoutRun}

\* Node counts and health: u1 registers a cluster, its status is set, and its
\* summary and its health are asked for, by its owner and by another user.
NextNodes ==
    \/ \E run \in {SuccessRun, TimeoutRun} :
            RegisterClusterCall("u1", Values("a", Token10, "token", ApiHttps), 1, run)
            /\ Fits(MaxClusters)
    \/ \E id \in DOMAIN clusters :
            UpdateClusterCall("u1", id, [name |-> None, status |-> Lit("error")])
    \/ \E id \in DOMAIN clusters, run \in NodeRuns : GetClusterNodeSummaryCall(id, "u1", run)
    \/ \E id \in DOMAIN clusters, run \in NodeRuns : GetClusterHealthCall(id, "u1", run)
    \/ \E id \in DOMAIN clusters : GetClusterHealthCall(id, "u2", SuccessRun)

SpecNodes == Init /\ [][NextNodes]_vars

\* The node rows a call may add
NodeData == {[node_type |-> ty, hostname |-> "h"] : ty \in {"master", "worker"}}

\* Deletion: both users create clusters, node rows are added to them, and
\* either user deletes any of them, or one that does not exist.
NextDelete ==
    \/ \E u \in Users : CreateClusterCall(u, "a") /\ Fits(MaxClusters + 1)
    \/ \E id \in 1..(MaxClusters + 2), node_data \in NodeData :
            AddClusterNodeCall(id, node_data)
            /\ Cardinality(DOMAIN cluster_nodes') <= MaxClusters + 1
    \/ \E u \in Users, id \in 1..(MaxClusters + 2) : DeleteClusterCall(id, u)

SpecDelete == Init /\ [][NextDelete]_vars

\* Ownership: u1 registers a cluster and gives it a node row; both users
\* then call every operation that takes a user id.
NextOwner ==
    \/ \E v \in {Values("a", Token10, "token", ApiHttps), Values("a", KcValid, "kubeconfig", None)} :
            RegisterClusterCall("u1", v, 1, SuccessRun) /\ Fits(MaxClusters)
    \/ \E id \in DOMAIN clusters :
            AddClusterNodeCall(id, [node_type |-> "worker", hostname |-> "h"])
            /\ Cardinality(DOMAIN cluster_nodes') <= MaxClusters
    \/ \E u \in Users, id \in ClusterIds : GetClusterAuthDataCall(id, u)
    \/ \E u \in Users, id \in ClusterIds, run \in {SuccessRun, TimeoutRun} :
            GetClusterNodeSummaryCall(id, u, run)
    \/ \E u \in Users, id \in ClusterIds : RefreshClusterNodesCall(id, u, SuccessRun)
    \/ \E u \in Users, id \in ClusterIds : GetClusterHealthCall(id, u, SuccessRun)
    \/ \E u \in Users, id \in ClusterIds : UpdateClusterStatusCall(id, "error", u)
    \/ \E u \in Users, id \in ClusterIds : FixClusterApiServerCall(id, Str(<<"x">>), u)
    \/ \E u \in Users, id \in ClusterIds : MigrateClusterEncryptionCall(id, u, KcValid, 2)
    \/ \E u \in Users, id \in ClusterIds : DeleteClusterCall(id, u)
    \/ \E u \in Users, id \in ClusterIds, run \in {SuccessRun, TimeoutRun} :
            DebugClusterDataCall(id, u, run)

SpecOwner == Init /\ [][NextOwner]_vars

----------------------------------------------------------------------------
(* Playbook executions: the route POST /playbooks/{id}/execute, the task it *)
(* hands to BackgroundTasks, ExecutionService and AnsibleRunner.            *)

MaxExecutions == 1

\* The ids a playbook and an inventory may take
PlaybookIds == {1}
InventoryIds == {1}

\* PlaybookService.get_playbook_by_id and InventoryService.get_inventory_by_id
GetPlaybookById(rows, playbook_id) ==
    IF playbook_id \in DOMAIN rows THEN rows[playbook_id] ELSE None

GetInventoryById(rows, inventory_id) ==
    IF inventory_id \in DOMAIN rows THEN rows[inventory_id] ELSE None

\* delete_playbook and delete_inventory: a row of another user is not found;
\* `referenced` is whether a foreign key of job_executions that the database
\* enforces refers to the row, which makes the commit raise
DeleteOwned(rows, id, user_id, referenced) ==
    IF id \notin DOMAIN rows \/ rows[id].user_id # user_id THEN [res |-> Ok(FALSE), rows |-> rows]
    ELSE IF referenced THEN [res |-> Err("IntegrityError"), rows |-> rows]
    ELSE [res |-> Ok(TRUE), rows |-> Delete(rows, {id})]

\* A row of job_executions; the timestamps are kept as `completed`
JobExecution(playbook_id, inventory_id, user_id) ==
    [playbook_id |-> playbook_id, inventory_id |-> inventory_id, user_id |-> user_id,
     status |-> "running", output |-> None, error_message |-> None, completed |-> FALSE]

\* ExecutionService.create_execution
CreateExecution(rows, id, playbook_id, inventory_id, user_id) ==
    Insert(rows, id, JobExecution(playbook_id, inventory_id, user_id))

\* The assignments of complete_execution to the row it found
Completed(execution, status, output, error_message) ==
    [execution EXCEPT !.status = status, !.completed = TRUE,
                      !.output = IF IsNone(output) THEN @ ELSE output,
                      !.error_message = IF IsNone(error_message) THEN @ ELSE error_message]

\* ExecutionService.complete_execution: user_id is None when the caller gives
\* none; `found` is whether a row was returned
CompleteExecution(rows, execution_id, status, output, error_message, user_id) ==
    IF execution_id \notin DOMAIN rows THEN [found |-> FALSE, rows |-> rows]
    ELSE IF ~IsNone(user_id) /\ rows[execution_id].user_id # user_id.lit
    THEN [found |-> FALSE, rows |-> rows]
    ELSE [found |-> TRUE,
          rows |-> [rows EXCEPT ![execution_id] =
                        Completed(rows[execution_id], status, output, error_message)]]

\* ExecutionService.delete_execution
DeleteExecution(rows, execution_id, user_id) ==
    IF execution_id \notin DOMAIN rows \/ rows[execution_id].user_id # user_id
    THEN [ret |-> FALSE, rows |-> rows]
    ELSE [ret |-> TRUE, rows |-> Delete(rows, {execution_id})]

\* AnsibleRunner.run_playbook: `outcome` is how the run went.  The playbook,
\* inventory and key files are written before the try block ("nowrite": one
\* of the writes raises); inside it ansible-playbook runs with a timeout of
\* one hour, and the finally clause removes the files.
RunPlaybook(outcome) ==
    CASE outcome.kind = "nowrite" -> [raised |-> TRUE, left |-> 1]
      [] outcome.kind = "exit" ->
            [raised |-> FALSE, return_code |-> outcome.code, stdout |-> Lit("stdout"),
             stderr |-> Lit("stderr"), left |-> 0]
      [] outcome.kind = "timeout" ->
            [raised |-> FALSE, return_code |-> 1, stdout |-> Lit(""),
             stderr |-> Lit("Playbook execution timed out after 1 hour"), left |-> 0]
      [] outcome.kind = "error" ->
            [raised |-> FALSE, return_code |-> 1, stdout |-> Lit(""),
             stderr |-> Lit("Execution error"), left |-> 0]

\* How a run may go
Outcomes ==
    {[kind |-> "exit", code |-> 0], [kind |-> "exit", code |-> 2],
     [kind |-> "timeout"], [kind |-> "error"], [kind |-> "nowrite"]}

\* execute_playbook_background once run_playbook has returned or raised `ran`
\* (faulty variant: an exception of run_playbook is not caught)
RecordRunUncaught(rows, execution_id, ran) ==
    IF ran.raised THEN rows
    ELSE IF ran.return_code = 0
    THEN CompleteExecution(rows, execution_id, "success", ran.stdout, None, None).rows
    ELSE CompleteExecution(rows, execution_id, "failed", ran.stdout, ran.stderr, None).rows

RecordRun(rows, execution_id, ran) ==
    IF ran.raised
    THEN CompleteExecution(rows, execution_id, "failed", None, Lit("Execution error"), None).rows
    ELSE IF ran.return_code = 0
    THEN CompleteExecution(rows, execution_id, "success", ran.stdout, None, None).rows
    ELSE CompleteExecution(rows, execution_id, "failed", ran.stdout, ran.stderr, None).rows

\* execute_playbook_background: the table job_executions afterwards
ExecutePlaybookBackground(rows, task, execution_id, outcome) ==
    IF \/ IsNone(GetPlaybookById(playbooks, task.playbook_id))
       \/ IsNone(GetInventoryById(inventory, task.inventory_id))
    THEN CompleteExecution(rows, execution_id, "failed", None,
                           Lit("Playbook or inventory not found"), None).rows
    ELSE RecordRun(rows, execution_id, RunPlaybook(outcome))

\* The playbooks and inventories of the users: create and delete
CreatePlaybookCall(user) ==
    /\ NewId(playbooks) \in PlaybookIds
    /\ playbooks' = Insert(playbooks, NewId(playbooks), [user_id |-> user])
    /\ last' = [op |-> "create_playbook"]
    /\ UNCHANGED <<background_tasks, job_executions, inventory, cluster_nodes, environ, rotation, cipher_suite, secret_key, clusters, issued>>

CreateInventoryCall(user) ==
    /\ NewId(inventory) \in InventoryIds
    /\ inventory' = Insert(inventory, NewId(inventory), [user_id |-> user])
    /\ last' = [op |-> "create_inventory"]
    /\ UNCHANGED <<background_tasks, job_executions, playbooks, cluster_nodes, environ, rotation, cipher_suite, secret_key, clusters, issued>>

DeletePlaybookCall(playbook_id, user, enforced) ==
    LET out == DeleteOwned(playbooks, playbook_id, user,
                           enforced /\ \E e \in DOMAIN job_executions :
                                            job_executions[e].playbook_id = playbook_id) IN
    /\ playbooks' = out.rows
    /\ last' = [op |-> "delete_playbook", deleted |-> out.res]
    /\ UNCHANGED <<background_tasks, job_executions, inventory, cluster_nodes, environ, rotation, cipher_suite, secret_key, clusters, issued>>

DeleteInventoryCall(inventory_id, user, enforced) ==
    LET out == DeleteOwned(inventory, inventory_id, user,
                           enforced /\ \E e \in DOMAIN job_executions :
                                            job_executions[e].inventory_id = inventory_id) IN
    /\ inventory' = out.rows
    /\ last' = [op |-> "delete_inventory", deleted |-> out.res]
    /\ UNCHANGED <<background_tasks, job_executions, playbooks, cluster_nodes, environ, rotation, cipher_suite, secret_key, clusters, issued>>

\* uuid.uuid4 for a new execution: an id no execution ever had
NewExecutionId == Cardinality(DOMAIN background_tasks) + 1

\* POST /playbooks/{id}/execute: the record is created and the task added
ExecutionStarted(playbook_id, inventory_id, user) ==
    /\ NewExecutionId <= MaxExecutions
    /\ job_executions' = CreateExecution(job_executions, NewExecutionId, playbook_id,
                                         inventory_id, user)
    /\ background_tasks' = Insert(background_tasks, NewExecutionId,
                                  [state |-> "queued", playbook_id |-> playbook_id,
                                   inventory_id |-> inventory_id, user_id |-> user])
    /\ last' = [op |-> "execute_playbook", user |-> user, res |-> Ok("running"),
                id |-> NewExecutionId]
    /\ UNCHANGED <<inventory, playbooks, cluster_nodes, environ, rotation, cipher_suite, secret_key, clusters, issued>>

ExecutePlaybookCall(playbook_id, inventory_id, user) ==
    IF \/ IsNone(GetPlaybookById(playbooks, playbook_id))
       \/ playbooks[playbook_id].user_id # user
    THEN /\ last' = [op |-> "execute_playbook", user |-> user,
                     res |-> Err("404 Playbook not found"), id |-> 0]
         /\ UNCHANGED <<background_tasks, job_executions, inventory, playbooks, cluster_nodes, environ, rotation, cipher_suite, secret_key, clusters, issued>>
    ELSE IF \/ IsNone(GetInventoryById(inventory, inventory_id))
            \/ inventory[inventory_id].user_id # user
    THEN /\ last' = [op |-> "execute_playbook", user |-> user,
                     res |-> Err("404 Inventory not found"), id |-> 0]
         /\ UNCHANGED <<background_tasks, job_executions, inventory, playbooks, cluster_nodes, environ, rotation, cipher_suite, secret_key, clusters, issued>>
    ELSE ExecutionStarted(playbook_id, inventory_id, user)

\* The task of execution `execution_id` runs to its end
ExecutePlaybookBackgroundCall(execution_id, outcome) ==
    /\ execution_id \in DOMAIN background_tasks
    /\ background_tasks[execution_id].state = "queued"
    /\ job_executions' = ExecutePlaybookBackground(job_executions,
                                background_tasks[execution_id], execution_id, outcome)
    /\ background_tasks' = [background_tasks EXCEPT ![execution_id].state = "ended"]
    /\ last' = [op |-> "execute_playbook_background", id |-> execution_id,
                outcome |-> outcome]
    /\ UNCHANGED <<inventory, playbooks, cluster_nodes, environ, rotation, cipher_suite, secret_key, clusters, issued>>

\* POST /executions/{id}/complete
CompleteExecutionCall(execution_id, status, user) ==
    LET out == CompleteExecution(job_executions, execution_id, status, None, None, Lit(user)) IN
    /\ job_executions' = out.rows
    /\ last' = [op |-> "complete_execution", found |-> out.found]
    /\ UNCHANGED <<background_tasks, inventory, playbooks, cluster_nodes, environ, rotation, cipher_suite, secret_key, clusters, issued>>

\* DELETE /executions/{id}
DeleteExecutionCall(execution_id, user) ==
    LET out == DeleteExecution(job_executions, execution_id, user) IN
    /\ job_executions' = out.rows
    /\ last' = [op |-> "delete_execution", ret |-> out.ret]
    /\ UNCHANGED <<background_tasks, inventory, playbooks, cluster_nodes, environ, rotation, cipher_suite, secret_key, clusters, issued>>

ExecutionIds == 1..MaxExecutions

\* Some queued task runs
RunTask == \E id \in ExecutionIds, outcome \in Outcomes : ExecutePlaybookBackgroundCall(id, outcome)

\* Executions: u1 keeps a playbook and an inventory, both users ask for runs,
\* u1 cancels running executions and deletes execution records, while the
\* tasks run.
NextExecutions ==
    \/ CreatePlaybookCall("u1")
    \/ CreateInventoryCall("u1")
    \/ \E id \in PlaybookIds, enforced \in BOOLEAN : DeletePlaybookCall(id, "u1", enforced)
    \/ \E id \in InventoryIds, enforced \in BOOLEAN : DeleteInventoryCall(id, "u1", enforced)
    \/ \E u \in Users, p \in PlaybookIds, i \in InventoryIds : ExecutePlaybookCall(p, i, u)
    \/ RunTask
    \/ \E id \in DOMAIN job_executions :
            job_executions[id].status = "running" /\ CompleteExecutionCall(id, "cancelled", "u1")
    \/ \E id \in ExecutionIds : DeleteExecutionCall(id, "u1")

SpecExecutions == Init /\ [][NextExecutions]_vars

\* The tasks BackgroundTasks holds are run once the response is sent, and a
\* run ends: it has no await, and ansible-playbook is bound by its timeout
SpecExecutionsFair == SpecExecutions /\ WF_vars(RunTask)

----------------------------------------------------------------------------
(* C1 as stated: for every string s, decrypt_data(encrypt_data(s)) = s.     *)
RoundTripEveryString ==
    last.op = "encrypt_data" =>
        /\ last.res.ok
        /\ DecryptData(cipher_suite, last.res.v) = Ok(last.arg)

(* C1 amended: for every string s that has a UTF-8 encoding,                *)
(* decrypt_data(encrypt_data(s)) = s under the active key, and decrypt_data *)
(* of a blob encrypt_data returned under the active key gives the string    *)
(* that was encrypted; for a string holding a lone surrogate encrypt_data   *)
(* raises "Encryption failed"; for the empty string both return the empty   *)
(* string and no ciphertext is produced.                                    *)
RoundTripEncodable ==
    /\ last.op = "encrypt_data" =>
          IF Utf8Encode(last.arg).ok
          THEN /\ last.res.ok
               /\ DecryptData(cipher_suite, last.res.v) = Ok(last.arg)
               /\ (last.arg = EmptyStr <=> last.res.v = EmptyStr)
          ELSE last.res = Err("Encryption failed")
    /\ last.op = "decrypt_data" =>
          /\ last.arg = EmptyStr => last.res = Ok(EmptyStr)
          /\ \A e \in issued :
                e.blob = last.arg /\ e.under = cipher_suite => last.res = Ok(e.pt)
    /\ \A e \in issued : e.pt # EmptyStr /\ e.blob # EmptyStr

RoundTripWitness ==
    /\ last.op = "decrypt_data"
    /\ \E e \in issued :
          /\ e.blob = last.arg
          /\ e.under = cipher_suite
          /\ e.pt = Str(<<"a", "b">>)
          /\ last.res = Ok(e.pt)

(* C2: decrypt_data of a blob encrypt_data produced under key A, run while  *)
(* a different key B is active, raises "Decryption failed"; it returns      *)
(* neither a plaintext nor the empty string.                                *)
KeyIsolation ==
    last.op = "decrypt_data" =>
        \A e \in issued :
            e.blob = last.arg /\ e.under # cipher_suite =>
                last.res = Err("Decryption failed")

KeyIsolationWitness ==
    /\ last.op = "decrypt_data"
    /\ \E e \in issued : e.blob = last.arg /\ e.under # cipher_suite
    /\ ~last.res.ok

(* C3: a rotate_key call that returns False leaves the active key as it was *)
(* and every blob decrypts afterwards to what it decrypted to before; the   *)
(* blobs made under the active key still give their original plaintext.     *)
RotateFailureKeepsKey ==
    [][ (last'.op = "rotate_key" /\ last'.ret = FALSE) =>
            /\ cipher_suite' = cipher_suite
            /\ \A e \in issued :
                  /\ DecryptData(cipher_suite', e.blob) = DecryptData(cipher_suite, e.blob)
                  /\ e.under = cipher_suite =>
                        DecryptData(cipher_suite', e.blob) = Ok(e.pt) ]_vars

RotateFailureWitness ==
    /\ last.op = "rotate_key"
    /\ last.ret = FALSE
    /\ last.key = KeyStrShort
    /\ \E e \in issued : DecryptData(cipher_suite, e.blob) = Ok(e.pt)

----------------------------------------------------------------------------
(* What a stored blob was made of: the key and the text encrypt_data was    *)
(* given when it produced the blob.                                         *)
HasBlob(row) == ~Falsy(row.kubeconfig)
BlobKey(row) == row.kubeconfig.b64.key
BlobText(row) == Str(row.kubeconfig.b64.msg.utf8)

\* The blob of row `id` does not resolve: get_cluster_auth_data gives
\* (None, None) to the owner and the owner's summary asks for re-registration
Unresolved(rows, key, id) ==
    /\ GetClusterAuthData(rows, key, id, rows[id].user_id).ret = <<None, None>>
    /\ \A run \in FailedRuns \cup {SuccessRun} :
          LET ret == GetClusterNodeSummary(rows, key, id, rows[id].user_id, run).ret IN
          /\ "error" \in DOMAIN ret
          /\ "needs_re_registration" \in DOMAIN ret
          /\ ret.needs_re_registration = TRUE

RotatedStep == last'.op = "rotate_key" /\ last'.ret = TRUE /\ cipher_suite' # cipher_suite

\* The blob of row `id` resolves: get_cluster_auth_data gives its plaintext
Resolves(rows, key, id) ==
    GetClusterAuthData(rows, key, id, rows[id].user_id).ret[1] = BlobText(rows[id])

(* C4 as stated: after rotate_key succeeds with a different key, every      *)
(* stored blob is unchanged and a blob that resolved no longer resolves;    *)
(* a blob that does not resolve stays so until migrate_cluster_encryption   *)
(* stores a new blob for its cluster, after which get_cluster_auth_data     *)
(* returns the migrated payload.                                            *)
RotationOrphansUntilMigrate ==
    /\ [][ RotatedStep =>
            /\ clusters' = clusters
            /\ \A id \in DOMAIN clusters :
                  (HasBlob(clusters[id]) /\ Resolves(clusters, cipher_suite, id)) =>
                      Unresolved(clusters', cipher_suite', id) ]_vars
    /\ [][ \A id \in DOMAIN clusters :
            (/\ HasBlob(clusters[id])
             /\ Unresolved(clusters, cipher_suite, id)
             /\ clusters'[id].kubeconfig = clusters[id].kubeconfig) =>
                Unresolved(clusters', cipher_suite', id) ]_vars
    /\ [](last.op = "migrate_cluster_encryption" /\ last.ret = TRUE /\ ~Falsy(last.payload) =>
            Resolves(clusters, cipher_suite, last.id))

(* C4 amended: a successful rotate_key leaves every stored blob unchanged;  *)
(* whenever the active key is not the key a stored blob was encrypted       *)
(* under, get_cluster_auth_data returns (None, None) for it and the owner's *)
(* get_cluster_node_summary returns an error with needs_re_registration,    *)
(* and a blob encrypted under the active key resolves to its plaintext      *)
(* (so a rotation back to a blob's key makes it resolve again without any   *)
(* migration); after migrate_cluster_encryption succeeds with a non-empty   *)
(* payload, get_cluster_auth_data returns the migrated payload.             *)
RotationOrphansOtherKeyBlobs ==
    /\ [][ RotatedStep => clusters' = clusters ]_vars
    /\ [](\A id \in DOMAIN clusters :
            HasBlob(clusters[id]) =>
                IF BlobKey(clusters[id]) # cipher_suite
                THEN Unresolved(clusters, cipher_suite, id)
                ELSE GetClusterAuthData(clusters, cipher_suite, id, clusters[id].user_id).ret
                        = <<BlobText(clusters[id]), Lit(clusters[id].auth_type)>>)
    /\ [](last.op = "migrate_cluster_encryption" /\ last.ret = TRUE /\ ~Falsy(last.payload) =>
            GetClusterAuthData(clusters, cipher_suite, last.id, last.user).ret[1] = last.payload)

\* A rotation has succeeded away from the key of a stored blob, which no
\* longer resolves
RotationWitness ==
    /\ cipher_suite # secret_key
    /\ \E id \in DOMAIN clusters :
          /\ HasBlob(clusters[id])
          /\ BlobKey(clusters[id]) = secret_key
          /\ Unresolved(clusters, cipher_suite, id)
    /\ last.op = "rotate_key"
    /\ last.ret = TRUE

(* C5: get_cluster_auth_data never raises: for a cluster that does not      *)
(* exist, a cluster of another user, a cluster with no stored blob, or a    *)
(* blob that fails to decrypt it returns (None, None); otherwise it returns *)
(* the stored plaintext and the auth type; it changes no stored state.      *)
AuthDataNeverRaises ==
    /\ [](last.op = "get_cluster_auth_data" =>
            /\ ~last.raised
            /\ IF \/ last.id \notin DOMAIN clusters
                  \/ clusters[last.id].user_id # last.user
                  \/ ~HasBlob(clusters[last.id])
                  \/ BlobKey(clusters[last.id]) # cipher_suite
               THEN last.ret = <<None, None>>
               ELSE last.ret = <<BlobText(clusters[last.id]), Lit(clusters[last.id].auth_type)>>)
    /\ [][ last'.op = "get_cluster_auth_data" =>
            UNCHANGED <<clusters, cipher_suite, secret_key>> ]_vars

\* A call by the owner on a blob of another key has returned (None, None)
AuthDataWitness ==
    /\ last.op = "get_cluster_auth_data"
    /\ last.id \in DOMAIN clusters
    /\ clusters[last.id].user_id = last.user
    /\ HasBlob(clusters[last.id])
    /\ BlobKey(clusters[last.id]) # cipher_suite
    /\ last.ret = <<None, None>>

----------------------------------------------------------------------------
\* The inputs C6 lists: a kubeconfig mapping that lacks apiVersion or
\* clusters, lists no cluster, or whose first entry has no server URL; a
\* token of fewer than MinTokenLen characters; token auth with no API server
\* or one without an http scheme
ListedInvalid(values) ==
    \/ /\ values.auth_type = "kubeconfig"
       /\ LET loaded == YamlLoad(values.auth_data) IN
          /\ loaded.ok
          /\ ~IsNone(loaded.v)
          /\ "scalar" \notin DOMAIN loaded.v
          /\ \/ "apiVersion" \notin DOMAIN loaded.v
             \/ "clusters" \notin DOMAIN loaded.v
             \/ loaded.v.clusters = <<>>
             \/ "cluster" \notin DOMAIN loaded.v.clusters[1]
             \/ "server" \notin DOMAIN loaded.v.clusters[1].cluster
    \/ /\ values.auth_type = "token"
       /\ \/ Len(values.auth_data.str) < MinTokenLen
          \/ values.api_server \in {None, EmptyStr}
          \/ \A scheme \in {Http, Https} :
                \/ Len(values.api_server.str) < Len(scheme)
                \/ \E i \in 1..Len(scheme) : values.api_server.str[i] # scheme[i]

(* C6: a registration request whose input fails validation (the inputs      *)
(* listed above) is rejected before encrypt_data is called and before any   *)
(* record is persisted: no blob is produced, the table is unchanged.        *)
InvalidInputRejectedFirst ==
    [][ (last'.op = "register_cluster" /\ ListedInvalid(last'.values)) =>
            /\ ~last'.res.ok
            /\ last'.enc = FALSE
            /\ clusters' = clusters ]_vars

\* A kubeconfig without clusters was rejected while a cluster was on record
InvalidInputWitness ==
    /\ last.op = "register_cluster"
    /\ last.values.auth_data = KcNoClusters
    /\ ListedInvalid(last.values)
    /\ ~last.res.ok
    /\ ~last.enc
    /\ clusters # NoClusters

(* C8: whenever register_existing_cluster fails (duplicate name, missing    *)
(* API server for token auth, encryption failure), the persisted cluster    *)
(* records are exactly what they were before the call.                      *)
RegisterFailureKeepsTable ==
    /\ [][ (last'.op = "register_cluster" /\ last'.service /\ ~last'.res.ok) =>
                clusters' = clusters ]_vars
    /\ [](\A u \in Users,
              v \in ValidRequests({"a"}) \cup {Values("a", Token10, "token", None),
                                                Values("a", Token10, "token", EmptyStr)} :
            LET out == RegisterExistingCluster(clusters, cipher_suite, 1, v, u, TimeoutRun) IN
            ~out.res.ok => out.rows = clusters)

\* The encryption of a request failed while a cluster was on record
RegisterFailureWitness ==
    /\ last.op = "register_cluster"
    /\ last.res = Err("Failed to secure cluster credentials")
    /\ last.enc
    /\ clusters # NoClusters

(* C9: register_existing_cluster succeeds and returns the record even when  *)
(* the initial node query fails (unreachable cluster, authentication        *)
(* failure, timeout, parse error); the record is then persisted with status *)
(* 'registered' and master and worker counts both 0.                        *)
RegisterSurvivesFailedQuery ==
    [][ (/\ last'.op = "register_cluster"
         /\ last'.service
         /\ Utf8Encode(last'.values.auth_data).ok
         /\ ~GetClusterByName(clusters, last'.values.name, last'.user)) =>
            /\ last'.res.ok
            /\ last'.id \notin DOMAIN clusters
            /\ DOMAIN clusters' = DOMAIN clusters \cup {last'.id}
            /\ clusters'[last'.id] = last'.res.v
            /\ "error" \in DOMAIN last'.summary =>
                  /\ clusters'[last'.id].status = "registered"
                  /\ clusters'[last'.id].master_nodes = 0
                  /\ clusters'[last'.id].worker_nodes = 0 ]_vars

\* A registration whose first node query was refused for authentication
RegisterFailedQueryWitness ==
    /\ last.op = "register_cluster"
    /\ last.res.ok
    /\ "error" \in DOMAIN last.summary
    /\ last.summary.error = "Failed to connect to cluster: Authentication failed"
    /\ clusters[last.id].status = "registered"
    /\ clusters[last.id].master_nodes = 0

(* C7: after any sequence of create, register and update (rename) requests, *)
(* no two cluster records of the same user have the same name.              *)
NamesUniquePerUser ==
    \A i, j \in DOMAIN clusters :
        (i # j /\ clusters[i].user_id = clusters[j].user_id) =>
            clusters[i].name # clusters[j].name

(* C10: when the node query fails during get_cluster_node_summary or        *)
(* refresh_cluster_nodes (credentials unavailable, missing API server,      *)
(* connect, auth or parse failure, timeout), the stored master count,       *)
(* worker count, status and encrypted blob of every record are unchanged.   *)
FailedQueryKeepsRecord ==
    [][ (/\ last'.op \in {"get_cluster_node_summary", "refresh_cluster_nodes"}
         /\ "error" \in DOMAIN last'.ret) =>
            /\ DOMAIN clusters' = DOMAIN clusters
            /\ \A id \in DOMAIN clusters :
                  /\ clusters'[id].master_nodes = clusters[id].master_nodes
                  /\ clusters'[id].worker_nodes = clusters[id].worker_nodes
                  /\ clusters'[id].status = clusters[id].status
                  /\ clusters'[id].kubeconfig = clusters[id].kubeconfig ]_vars

\* A query by the owner failed on a record whose counts were known and whose
\* status had been set to error
FailedQueryWitness ==
    /\ last.op = "refresh_cluster_nodes"
    /\ "error" \in DOMAIN last.ret
    /\ last.id \in DOMAIN clusters
    /\ clusters[last.id].user_id = last.user
    /\ clusters[last.id].master_nodes = 1
    /\ clusters[last.id].status = "error"

----------------------------------------------------------------------------
(* C11: when the list-nodes command of a refresh fails (connect, auth or    *)
(* parse error), the caller of refresh_cluster_nodes receives the failure   *)
(* reason together with the last-known persisted node counts.               *)
RefreshFailureCarriesCounts ==
    (/\ last.op = "refresh_cluster_nodes"
     /\ last.queried
     /\ "error" \in DOMAIN last.ret) =>
        /\ "master_nodes" \in DOMAIN last.ret
        /\ "worker_nodes" \in DOMAIN last.ret
        /\ last.ret.master_nodes = clusters[last.id].master_nodes
        /\ last.ret.worker_nodes = clusters[last.id].worker_nodes

(* C12: after any sequence of rotate_key calls, get_key_fingerprint()       *)
(* identifies the key encrypt_data and decrypt_data currently use, and the  *)
(* manager holds one authoritative key.                                     *)
FingerprintOfActiveKey ==
    /\ last.op = "get_key_fingerprint" => last.ret = [key_ |-> Sha256Hex16(cipher_suite)]
    /\ secret_key = cipher_suite

(* What a source supplies to key resolution in environment env *)
EnvSupplies(env) == env.env_key # None /\ ValidateAndDecodeKey(env.env_key).ok
SecretSupplies(env) ==
    /\ Readable(env.secret_file)
    /\ ValidateAndDecodeKey(StripKey(env.secret_file)).ok
FileSupplies(env, i) == Readable(env.key_files[KeyLocations[i]])
FirstFile(env) == CHOOSE i \in 1..Len(KeyLocations) :
    FileSupplies(env, i) /\ \A j \in 1..(i - 1) : ~FileSupplies(env, j)
AnyFile(env) == \E i \in 1..Len(KeyLocations) : FileSupplies(env, i)

(* C13: key resolution returns the key of the first available source in the *)
(* order ENCRYPTION_KEY, secret file, local key files in their listed       *)
(* order, generated key; a lower-priority source is never used while a      *)
(* higher one supplies a valid key, and a key is generated only when no     *)
(* source supplies one.                                                     *)
ResolvesFirstAvailable ==
    last.op = "construct" =>
        /\ EnvSupplies(last.env) =>
              /\ last.source = "env"
              /\ last.key = KeyStrOf(ValidateAndDecodeKey(last.env.env_key).v)
        /\ (last.source = "secret" \/ (~EnvSupplies(last.env) /\ SecretSupplies(last.env)
                                       /\ last.source # "env")) =>
              /\ ~EnvSupplies(last.env)
              /\ last.source = "secret"
              /\ last.key = KeyStrOf(ValidateAndDecodeKey(StripKey(last.env.secret_file)).v)
        /\ (last.source = "file" \/ (~EnvSupplies(last.env) /\ ~SecretSupplies(last.env)
                                     /\ AnyFile(last.env) /\ last.source # "env")) =>
              /\ ~EnvSupplies(last.env) /\ ~SecretSupplies(last.env)
              /\ last.source = "file"
              /\ last.key = last.env.key_files[KeyLocations[FirstFile(last.env)]]
        /\ last.source = "generated" =>
              /\ ~EnvSupplies(last.env) /\ ~SecretSupplies(last.env) /\ ~AnyFile(last.env)
              /\ last.key.material \in GeneratedKeys

ResolvesFirstAvailableWitness ==
    /\ last.op = "construct"
    /\ last.source = "secret"
    /\ AnyFile(last.env)
    /\ cipher_suite = "kB"

(* C14: when ENCRYPTION_KEY is present but malformed, key resolution fails  *)
(* with an error: it never falls through to the secret file, a local key    *)
(* file or key generation, and it writes no key file.                       *)
MalformedEnvironmentKeyIsFatal ==
    (/\ last.op = "construct"
     /\ last.env.env_key # None
     /\ ~ValidateAndDecodeKey(last.env.env_key).ok) =>
        /\ last.raised
        /\ last.source = "env"
        /\ cipher_suite = None
        /\ environ.key_files = last.env.key_files

(* C15: when the secret file exists but holds an invalid key, startup       *)
(* fails: no substitute key is generated and no key of a lower-priority     *)
(* source is used in its place.                                             *)
MalformedSecretFileIsFatal ==
    (/\ last.op = "construct"
     /\ last.env.env_key = None
     /\ Readable(last.env.secret_file)
     /\ ~ValidateAndDecodeKey(StripKey(last.env.secret_file)).ok) =>
        /\ last.raised
        /\ last.source \notin {"file", "generated"}
        /\ cipher_suite = None
        /\ environ.key_files = last.env.key_files

(* C16: once a generated key has been persisted, every later resolution in  *)
(* the same environment (no environment value, no secret file, key files    *)
(* untouched) returns that same key and generates none.                     *)
PersistedKeySurvivesRestart ==
    (/\ last.op = "construct"
     /\ last.saved_before # None) =>
        /\ ~last.raised
        /\ last.source = "file"
        /\ last.key = last.saved_before
        /\ cipher_suite = last.saved_before.material
        /\ environ = last.env

PersistedKeySurvivesRestartWitness ==
    /\ last.op = "construct"
    /\ last.saved_before # None
    /\ last.source = "file"
    /\ last.key.material \in GeneratedKeys
    /\ FalsyKey(last.env.env_key)
    /\ last.env.secret_file = Absent

(* C17: rotate_key makes the candidate key the active key only after its    *)
(* self-test has succeeded: while a rotation has not passed its self-test   *)
(* the previous key is the active one, and no encrypt_data or decrypt_data  *)
(* call of another thread runs under the untested candidate.                *)
CandidateActiveOnlyAfterSelfTest ==
    /\ [](rotation # None => cipher_suite = rotation.old_cipher_suite)
    /\ [][ (last' # last /\ last'.op \in {"encrypt_data", "decrypt_data"}) =>
              rotation = None ]_vars

(* C18: a successful registration with auth_type token stores a record with *)
(* auth_type 'token', the supplied api_server verbatim and a blob that      *)
(* decrypts under the active key to exactly the supplied auth_data; a token *)
(* of exactly 10 characters is accepted (only a name already taken by the   *)
(* user makes its registration fail).                                       *)
TokenRegistrationStored ==
    (/\ last.op = "register_cluster"
     /\ last.values.auth_type = "token") =>
        /\ last.res.ok =>
              /\ last.id \in DOMAIN clusters
              /\ clusters[last.id].auth_type = "token"
              /\ clusters[last.id].api_server = last.values.api_server
              /\ clusters[last.id].user_id = last.user
              /\ DecryptData(cipher_suite, clusters[last.id].kubeconfig)
                    = Ok(last.values.auth_data)
        /\ (/\ Len(last.values.auth_data.str) = 10
            /\ last.values.api_server \in {ApiHttp, ApiHttps}
            /\ Utf8Encode(last.values.auth_data).ok
            /\ ~last.res.ok) =>
              /\ last.service
              /\ last.res.err = "Cluster with this name already exists"

TokenRegistrationWitness ==
    /\ last.op = "register_cluster"
    /\ last.res.ok
    /\ last.values.auth_type = "token"
    /\ last.values.auth_data = Token10
    /\ last.values.api_server = ApiHttps
    /\ DecryptData(cipher_suite, clusters[last.id].kubeconfig) = Ok(Token10)

(* The role set of a listed node: the suffixes of its node-role labels, or  *)
(* 'master' from the legacy label when it has none                          *)
RoleSet(item) ==
    IF item.role_labels # {} THEN item.role_labels
    ELSE IF item.legacy_master THEN {"master"} ELSE {}
Masters(items) ==
    {i \in 1..Len(items) : "control-plane" \in RoleSet(items[i]) \/ "master" \in RoleSet(items[i])}

(* C19: in every successful node summary a node is counted as master        *)
(* exactly when its role set contains 'control-plane' or 'master', every    *)
(* other node is counted as worker, master_nodes + worker_nodes =           *)
(* total_nodes = the number of nodes returned, and these are the counts     *)
(* persisted on the record.                                                 *)
CountsFollowRoles ==
    (/\ last.op = "get_cluster_node_summary"
     /\ "error" \notin DOMAIN last.ret) =>
        /\ "items" \in DOMAIN last.listed
        /\ \A i \in 1..Len(last.listed.items) : last.ret.nodes[i].roles = RoleSet(last.listed.items[i])
        /\ last.ret.master_nodes = Cardinality(Masters(last.listed.items))
        /\ last.ret.worker_nodes = Len(last.listed.items) - Cardinality(Masters(last.listed.items))
        /\ last.ret.total_nodes = Len(last.listed.items)
        /\ last.ret.master_nodes + last.ret.worker_nodes = last.ret.total_nodes
        /\ clusters[last.id].master_nodes = last.ret.master_nodes
        /\ clusters[last.id].worker_nodes = last.ret.worker_nodes

CountsFollowRolesWitness ==
    /\ last.op = "get_cluster_node_summary"
    /\ "error" \notin DOMAIN last.ret
    /\ last.listed = [items |-> <<ControlPlaneNode, MasterNode, LegacyMasterNode, LabelledWorkerNode>>]
    /\ clusters[last.id].master_nodes = 3
    /\ clusters[last.id].worker_nodes = 1

(* Nodes of a snapshot that are Ready, and the health the thresholds give *)
ReadyNodes(items) == {i \in 1..Len(items) : items[i].ready = "True"}
HealthOf(ready, total) ==
    IF total = 0 THEN "critical"
    ELSE IF ready = total THEN "healthy"
    ELSE IF 2 * ready >= total THEN "warning"
    ELSE "critical"

(* C20: get_cluster_health computes health_status from the node snapshot    *)
(* just fetched alone: 'critical' for 0 nodes, 'healthy' when all nodes are *)
(* Ready, 'warning' when at least half but not all are, 'critical'          *)
(* otherwise, whatever counts and status the record held before.            *)
HealthFromSnapshot ==
    (/\ last.op = "get_cluster_health"
     /\ last.ret.ok
     /\ last.ret.v.node_summary # None) =>
        /\ "items" \in DOMAIN last.listed
        /\ last.ret.v.node_summary.total_nodes = Len(last.listed.items)
        /\ last.ret.v.health_status =
              HealthOf(Cardinality(ReadyNodes(last.listed.items)), Len(last.listed.items))

HealthFromSnapshotWitness ==
    /\ last.op = "get_cluster_health"
    /\ last.ret.ok
    /\ last.ret.v.node_summary # None
    /\ Len(last.listed.items) = 4
    /\ Cardinality(ReadyNodes(last.listed.items)) = 2
    /\ last.ret.v.health_status = "warning"

(* The calls that query the nodes of a cluster *)
NodeQueryOps == {"get_cluster_node_summary", "refresh_cluster_nodes", "get_cluster_health"}
StartedAndEnded(kind) ==
    /\ last.op \in NodeQueryOps
    /\ "kind" \in DOMAIN last.ended
    /\ last.ended.kind = kind

(* C21: a node query that runs into its timeout is reported as a connection *)
(* failure of that query and is not retried: every summary, refresh and     *)
(* health call starts the list-nodes command at most once, whatever the     *)
(* outcome.                                                                 *)
QueryStartedAtMostOnce ==
    /\ last.op \in NodeQueryOps => last.starts <= 1
    /\ StartedAndEnded("timeout") =>
          /\ last.starts = 1
          /\ last.op # "get_cluster_health" =>
                last.ret.error = "Failed to connect to cluster: TimeoutExpired"
          /\ last.op = "get_cluster_node_summary" => last.ret.status = "error"
          /\ last.op = "get_cluster_health" =>
                /\ last.ret.v.node_summary = None
                /\ last.ret.v.health_status = "unknown"

QueryTimedOutWitness ==
    /\ StartedAndEnded("timeout")
    /\ last.op = "refresh_cluster_nodes"
    /\ last.starts = 1
    /\ last.ret.error = "Failed to connect to cluster: TimeoutExpired"

(* C27: a non-zero exit of the list-nodes command is classified as exactly  *)
(* one kind: a connect failure when the diagnostic holds the connect        *)
(* marker, otherwise an authentication failure when it holds 'Forbidden' or *)
(* 'Unauthorized', otherwise a generic failure; the kind is in the error    *)
(* the caller receives.                                                     *)
ExitClassifiedOnce ==
    (StartedAndEnded("exit") /\ last.op # "get_cluster_health") =>
        last.ret.error = "Failed to connect to cluster: " \o
            (IF ConnectMarker \in last.ended.stderr
             THEN "Unable to connect to Kubernetes API"
             ELSE IF "Forbidden" \in last.ended.stderr \/ "Unauthorized" \in last.ended.stderr
             THEN "Authentication failed"
             ELSE "kubectl error")

ExitClassifiedWitness ==
    /\ StartedAndEnded("exit")
    /\ last.op = "get_cluster_node_summary"
    /\ last.ended.stderr = {ConnectMarker, "Forbidden"}
    /\ last.ret.error = "Failed to connect to cluster: Unable to connect to Kubernetes API"

(* C22: an operation that writes credential material to a temporary file    *)
(* has removed every temporary file it created by the time it returns or    *)
(* raises, on every exit path, a failed write of the file included; here    *)
(* for the node queries, which go through _get_nodes_with_kubeconfig.       *)
NoTemporaryFileLeft ==
    last.op \in NodeQueryOps => last.left = 0

\* The descriptor _get_nodes_with_token writes for the query just made of a
\* token cluster: its decrypted token bound to the api_server of its row
QueriedByToken ==
    /\ last.op \in NodeQueryOps
    /\ last.starts > 0
    /\ clusters[last.id].auth_type = "token"

TokenDescriptor ==
    CreateKubeconfigWithToken(
        GetClusterAuthData(clusters, cipher_suite, last.id, last.user).ret[1],
        clusters[last.id].api_server)

(* C23: the connection descriptor synthesized for a token cluster whose API *)
(* server is an https:// URL has TLS certificate verification enabled:      *)
(* insecure-skip-tls-verify is not set, nothing having configured it.       *)
TokenDescriptorVerifiesTls ==
    (QueriedByToken /\ StartsWith(clusters[last.id].api_server, Https)) =>
        ~TokenDescriptor.insecure_skip_tls_verify

\* delete_cluster was just called for a cluster of the caller
DeletedOwn ==
    /\ last'.op = "delete_cluster"
    /\ last'.id \in DOMAIN clusters
    /\ clusters[last'.id].user_id = last'.user

(* C24: delete_cluster by the owner returns True and removes the cluster    *)
(* row and exactly the node rows of that cluster, every other row staying   *)
(* as it was; for a missing cluster or a cluster of another user it returns *)
(* False and both tables stay as they were.                                 *)
DeleteRemovesOwnRowsOnly ==
    [][last'.op = "delete_cluster" =>
        IF DeletedOwn
        THEN /\ last'.ret = TRUE
             /\ DOMAIN clusters' = DOMAIN clusters \ {last'.id}
             /\ \A id \in DOMAIN clusters' : clusters'[id] = clusters[id]
             /\ DOMAIN cluster_nodes' =
                    {n \in DOMAIN cluster_nodes : cluster_nodes[n].cluster_id # last'.id}
             /\ \A n \in DOMAIN cluster_nodes' : cluster_nodes'[n] = cluster_nodes[n]
        ELSE /\ last'.ret = FALSE
             /\ UNCHANGED <<clusters, cluster_nodes>>]_vars

\* A cluster with node rows was deleted by its owner while another cluster
\* and a node row of it stay
DeleteWitness ==
    /\ last.op = "delete_cluster"
    /\ last.ret = TRUE
    /\ last.removed > 0
    /\ DOMAIN clusters # {}
    /\ DOMAIN cluster_nodes # {}

(* C25: when no key source exists and a key is generated, the key ends up   *)
(* persisted whenever at least one persistence location is writable, the    *)
(* case where only the current-directory fallback is writable included.     *)
GeneratedKeyPersistedWhenWritable ==
    (last.op = "construct" /\ last.source = "generated" /\ last.writable # {}) =>
        /\ last.key_saved
        /\ \E path \in last.writable : environ.key_files[path] = last.key

(* C26: every key that key resolution returns from a stored source (the     *)
(* environment value, the secret file or a local key file) passes the       *)
(* validation routine: 44 base64-url characters decoding to 32 bytes.       *)
StoredKeyValidated ==
    (/\ last.op = "construct"
     /\ last.source \in {"env", "secret", "file"}
     /\ ~IsNone(last.key)) =>
        ValidateAndDecodeKey(last.key).ok

(* C28: after any sequence of register, update and fix-api-server calls,    *)
(* every stored cluster record with auth_type token has a non-empty         *)
(* api_server that begins with http:// or https://.                         *)
TokenRecordsHaveApiServer ==
    \A id \in DOMAIN clusters :
        clusters[id].auth_type = "token" =>
            /\ IsStr(clusters[id].api_server)
            /\ ~Falsy(clusters[id].api_server)
            /\ \/ StartsWith(clusters[id].api_server, Http)
               \/ StartsWith(clusters[id].api_server, Https)

\* The service operations that take a user id, and what each returns or
\* raises when it does not find the cluster
UserIdOps ==
    {"get_cluster_auth_data", "get_cluster_node_summary", "refresh_cluster_nodes",
     "get_cluster_health", "update_cluster_status", "fix_cluster_api_server",
     "migrate_cluster_encryption", "delete_cluster", "debug_cluster_data"}

NotFoundResult(call) ==
    CASE call.op = "get_cluster_auth_data" -> call.ret = <<None, None>> /\ ~call.raised
      [] call.op \in {"get_cluster_node_summary", "refresh_cluster_nodes"} ->
            call.ret = [error |-> "Cluster not found or access denied"]
      [] call.op = "get_cluster_health" -> call.ret = Err("Cluster not found or access denied")
      [] call.op \in {"update_cluster_status", "fix_cluster_api_server"} -> call.ret = None
      [] call.op \in {"migrate_cluster_encryption", "delete_cluster"} -> call.ret = FALSE
      [] call.op = "debug_cluster_data" -> call.ret = [error |-> "Cluster not found"]

\* The call just made named a cluster of another user
ForeignCall ==
    /\ last'.op \in UserIdOps
    /\ last'.id \in DOMAIN clusters
    /\ clusters[last'.id].user_id # last'.user

(* C29: a call of a cluster service operation that takes a user id, made by  *)
(* a user who does not own the cluster, yields the operation's not-found     *)
(* result, decrypts nothing, starts no external query and leaves every       *)
(* stored record as it was.                                                  *)
ForeignCallFindsNothing ==
    [][ForeignCall =>
        /\ NotFoundResult(last')
        /\ "decrypted" \in DOMAIN last' => ~last'.decrypted
        /\ "starts" \in DOMAIN last' => (last'.starts = 0 /\ last'.left = 0)
        /\ UNCHANGED <<clusters, cluster_nodes, cipher_suite, secret_key, issued>>]_vars

\* u2 asked for the node summary of the cluster u1 registered, which holds
\* credentials and has a node row
ForeignCallWitness ==
    /\ last.op = "get_cluster_node_summary"
    /\ last.user = "u2"
    /\ last.id \in DOMAIN clusters
    /\ clusters[last.id].user_id = "u1"
    /\ ~Falsy(clusters[last.id].kubeconfig)
    /\ GetClusterNodes(cluster_nodes, last.id) # {}
    /\ last.ret = [error |-> "Cluster not found or access denied"]
    /\ ~last.decrypted
    /\ last.starts = 0

\* execute_playbook just created a record; the task of a record just ended,
\* the record still there
ExecutionCreated == last'.op = "execute_playbook" /\ last'.res.ok

TaskEnded ==
    /\ last'.op = "execute_playbook_background"
    /\ last'.id \in DOMAIN job_executions'

\* The run of the task that just ended was handed a playbook and an inventory
\* and ansible-playbook returned exit code 0
RanToSuccess ==
    /\ background_tasks[last'.id].playbook_id \in DOMAIN playbooks
    /\ background_tasks[last'.id].inventory_id \in DOMAIN inventory
    /\ last'.outcome = [kind |-> "exit", code |-> 0]

====
